---- MODULE Spec2Model ----
(***************************************************************************)
(* Model of the colour pipeline of theme_generator.py: normalize_hex_color, *)
(* calculate_contrast_ratio, validate_and_fix_colors, is_light_theme,       *)
(* adjust_color_for_theme, generate_ui_colors, generate_vscode_theme,       *)
(* parse_alacritty_colors, generate_theme_for_name, generate_all_themes and  *)
(* check_theme_status, and of setup_integration and remove_integration of   *)
(* integration_hooks.py.                                                    *)
(*                                                                          *)
(* A Python string is a sequence of one-character strings, so that strip,   *)
(* startswith, slicing and int(s, 16) are computed as Python computes them. *)
(* Floats are fixed-point integers: a luminance is in units of 1/100000, a  *)
(* contrast ratio in units of 1/10000.                                      *)
(***************************************************************************)
EXTENDS Integers, Sequences, FiniteSets, TLC

VARIABLES
    pc,               \* which call has been made
    color_value,      \* normalize_hex_color: its argument
    normalized,       \* normalize_hex_color(color_value)
    renormalized,     \* normalize_hex_color(normalized)
    color1, color2,   \* calculate_contrast_ratio: its arguments
    contrast,         \* calculate_contrast_ratio(color1, color2)
    contrast_swapped, \* calculate_contrast_ratio(color2, color1)
    colors,           \* validate_and_fix_colors: the raw palette
    fixed_colors,     \* validate_and_fix_colors: the palette returned
    issues_found,     \* validate_and_fix_colors: the issues returned
    base_color,       \* is_light_theme, adjust_color_for_theme: the colour
    light,            \* is_light_theme(base_color), or the is_light passed
    amount,           \* adjust_color_for_theme: the factor, in 1/100
    adjusted,         \* adjust_color_for_theme(base_color, light, amount)
    ui_colors,        \* generate_ui_colors: the surfaces returned
    themes_dir,       \* the themes directory: each theme's files
    requested,        \* generate_theme_for_name: the theme name asked for
    alacritty_file,   \* parse_alacritty_colors: the text of the file to read
    parsed,           \* parse_alacritty_colors: the dict returned
    vscode_theme,     \* generate_vscode_theme: the document returned
    theme_type,       \* generate_theme_for_name: the theme type printed
    returned,         \* what the last call returned, "raised" if it raised
    theme_dirs,       \* generate_all_themes: the directories listed, in order
    processed,        \* generate_all_themes: how many of them the loop has done
    success_count,    \* generate_all_themes: the themes generated so far
    report,           \* generate_all_themes: the counts printed at the end
    status,           \* check_theme_status: the themes reported complete, missing
    original_script,  \* integration: the file omarchy-theme-set
    backup_script,    \* integration: the file omarchy-theme-set.backup
    enhanced_script,  \* integration: the file omarchy-theme-set-enhanced
    generator_path,   \* integration: whether themes/theme_generator.py exists
    first_script,     \* integration: omarchy-theme-set before the first setup
    setup_calls,      \* integration: the calls of setup_integration so far
    results           \* integration: what the calls so far returned, in order

normalizeVars == <<color_value, normalized, renormalized>>
contrastVars == <<color1, color2, contrast, contrast_swapped>>
validateVars == <<colors, fixed_colors, issues_found>>
surfaceVars == <<base_color, light, amount, adjusted, ui_colors>>
themeVars == <<themes_dir, requested, parsed, vscode_theme, theme_type, returned>>
batchVars == <<theme_dirs, processed, success_count, report, status>>
parseVars == <<alacritty_file>>
hookVars ==
    <<original_script, backup_script, enhanced_script, generator_path, first_script,
      setup_calls, results>>
extraVars == <<surfaceVars, themeVars, batchVars, parseVars, hookVars>>
vars == <<pc, normalizeVars, contrastVars, validateVars, extraVars>>

\* Python's None, as a value no string of characters equals.
None == <<"None">>
\* A key a dict does not have, a file a directory does not have.
Absent == <<"Absent">>

(***************************************************************************)
(* Bounds                                                                   *)
(***************************************************************************)
\* Raw values are all strings over Alphabet of at most this length, plus Examples.
MaxRawLen == 4
\* A raw palette's ANSI slots are all absent or all set, but for at most this
\* many slots.
MaxDeviations == 1

(***************************************************************************)
(* Python string primitives                                                 *)
(***************************************************************************)
Whitespace == {" "}
Quotes == {"\"", "'"}
HexDigits == {"0", "1", "2", "3", "4", "5", "6", "7", "8", "9",
              "a", "b", "c", "d", "e", "f", "A", "B", "C", "D", "E", "F"}

\* The value of one hexadecimal digit.
HexVal(c) ==
    CASE c = "0" -> 0 [] c = "1" -> 1 [] c = "2" -> 2 [] c = "3" -> 3
      [] c = "4" -> 4 [] c = "5" -> 5 [] c = "6" -> 6 [] c = "7" -> 7
      [] c = "8" -> 8 [] c = "9" -> 9
      [] c \in {"a", "A"} -> 10 [] c \in {"b", "B"} -> 11
      [] c \in {"c", "C"} -> 12 [] c \in {"d", "D"} -> 13
      [] c \in {"e", "E"} -> 14 [] c \in {"f", "F"} -> 15

RECURSIVE lstrip(_, _)
lstrip(s, chars) ==
    IF s # <<>> /\ Head(s) \in chars THEN lstrip(Tail(s), chars) ELSE s

RECURSIVE rstrip(_, _)
rstrip(s, chars) ==
    IF s # <<>> /\ s[Len(s)] \in chars
    THEN rstrip(SubSeq(s, 1, Len(s) - 1), chars)
    ELSE s

\* str.strip(chars): every leading and trailing character of chars removed.
strip(s, chars) == rstrip(lstrip(s, chars), chars)

startswith(s, prefix) ==
    Len(s) >= Len(prefix) /\ SubSeq(s, 1, Len(prefix)) = prefix

\* The digits of a Python integer literal: hex digits, single underscores
\* allowed between two digits only.
RECURSIVE DigitsOK(_)
DigitsOK(d) ==
    /\ d # <<>>
    /\ Head(d) \in HexDigits
    /\ LET r == Tail(d)
       IN  \/ r = <<>>
           \/ IF Head(r) = "_" THEN DigitsOK(Tail(r)) ELSE DigitsOK(r)

RECURSIVE DigitsValue(_, _)
DigitsValue(d, acc) ==
    IF d = <<>> THEN acc
    ELSE IF Head(d) = "_" THEN DigitsValue(Tail(d), acc)
    ELSE DigitsValue(Tail(d), 16 * acc + HexVal(Head(d)))

\* s without its one optional sign.
Unsigned(s) == IF s # <<>> /\ Head(s) \in {"+", "-"} THEN Tail(s) ELSE s

\* s without the base prefix 0x / 0X and the one underscore that may follow it.
Unprefixed(s) ==
    IF startswith(s, <<"0", "x">>) \/ startswith(s, <<"0", "X">>)
    THEN LET r == SubSeq(s, 3, Len(s))
         IN  IF r # <<>> /\ Head(r) = "_" THEN Tail(r) ELSE r
    ELSE s

\* What int(s, 16) reads as digits: surrounding whitespace, one sign and the
\* base prefix are accepted and dropped.
Int16Digits(s) == Unprefixed(Unsigned(strip(s, Whitespace)))

\* int(s, 16) raises no ValueError.
IsInt16(s) == DigitsOK(Int16Digits(s))

\* The value of int(s, 16), for s with IsInt16(s).
Int16(s) ==
    LET t == strip(s, Whitespace)
        v == DigitsValue(Int16Digits(s), 0)
    IN  IF t # <<>> /\ Head(t) = "-" THEN 0 - v ELSE v

\* ''.join([c*2 for c in s])
RECURSIVE DoubleEach(_)
DoubleEach(s) ==
    IF s = <<>> THEN <<>> ELSE <<Head(s), Head(s)>> \o DoubleEach(Tail(s))

(***************************************************************************)
(* normalize_hex_color                                                      *)
(***************************************************************************)
\* RewritePrefix dropping one character of the prefix instead of two.
RewritePrefix_DropsOne(s) ==
    IF startswith(s, <<"0", "x">>) THEN <<"#">> \o SubSeq(s, 2, Len(s)) ELSE s

\* The 0x prefix (from alacritty) rewritten to '#'.
RewritePrefix(s) ==
    IF startswith(s, <<"0", "x">>) THEN <<"#">> \o SubSeq(s, 3, Len(s)) ELSE s

\* '#' prepended when absent.
EnsureHash(s) == IF startswith(s, <<"#">>) THEN s ELSE <<"#">> \o s

\* #RGB -> #RRGGBB
ExpandShort(s) ==
    IF Len(s) = 4 THEN <<"#">> \o DoubleEach(Tail(s)) ELSE s

normalize_hex_color(value) ==
    IF value = None \/ value = <<>> THEN None
    ELSE LET stripped == strip(strip(value, Whitespace), Quotes)
             c == ExpandShort(EnsureHash(RewritePrefix(stripped)))
         IN  IF Len(c) # 7 THEN None
             ELSE IF IsInt16(Tail(c)) THEN c
             ELSE None

is_valid_hex_color(hex_color) == normalize_hex_color(hex_color) # None

(***************************************************************************)
(* calculate_contrast_ratio                                                 *)
(***************************************************************************)
\* GAMMA_THRESHOLD = 0.03928, in units of 1/100000.
GAMMA_THRESHOLD == 3928
\* GAMMA_DIVISOR = 12.92, in units of 1/100.
GAMMA_DIVISOR == 1292
\* The luminance coefficients 0.2126, 0.7152 and 0.0722, in units of 1/10000.
LUMINANCE_R == 2126
LUMINANCE_G == 7152
LUMINANCE_B == 722
\* The contrast thresholds 3.0 and 2.0, in units of 1/10000.
MIN_READABLE_CONTRAST == 30000
MIN_ACCEPTABLE_CONTRAST == 20000

\* pow((c + GAMMA_OFFSET) / GAMMA_DENOMINATOR, GAMMA_POWER) for c = v / 255.0,
\* v = 0..255 (entry v + 1), rounded to units of 1/100000.
GammaPower ==
    << 83, 98, 115, 133, 152, 173, 196, 220, 246, 274, 303, 335, 368, 402, 439, 478,
       518, 561, 605, 651, 700, 750, 802, 857, 913, 972, 1033, 1096, 1161, 1229, 1298, 1370,
       1444, 1521, 1600, 1681, 1764, 1850, 1938, 2029, 2122, 2217, 2315, 2416, 2519, 2624, 2732, 2843,
       2956, 3071, 3190, 3310, 3434, 3560, 3689, 3820, 3955, 4092, 4231, 4374, 4519, 4667, 4817, 4971,
       5127, 5286, 5448, 5613, 5781, 5951, 6125, 6301, 6480, 6663, 6848, 7036, 7227, 7421, 7619, 7819,
       8022, 8228, 8438, 8650, 8866, 9084, 9306, 9531, 9759, 9990, 10224, 10462, 10702, 10946, 11193, 11444,
       11697, 11954, 12214, 12477, 12744, 13014, 13287, 13563, 13843, 14126, 14413, 14703, 14996, 15293, 15593, 15896,
       16203, 16513, 16827, 17144, 17465, 17789, 18116, 18447, 18782, 19120, 19462, 19807, 20156, 20508, 20864, 21223,
       21586, 21953, 22323, 22697, 23074, 23455, 23840, 24228, 24620, 25016, 25415, 25818, 26225, 26636, 27050, 27468,
       27889, 28315, 28744, 29177, 29614, 30054, 30499, 30947, 31399, 31855, 32314, 32778, 33245, 33716, 34191, 34670,
       35153, 35640, 36131, 36625, 37124, 37626, 38133, 38643, 39157, 39676, 40198, 40724, 41254, 41789, 42327, 42869,
       43415, 43966, 44520, 45079, 45641, 46208, 46778, 47353, 47932, 48515, 49102, 49693, 50289, 50888, 51492, 52100,
       52712, 53328, 53948, 54572, 55201, 55834, 56471, 57112, 57758, 58408, 59062, 59720, 60383, 61050, 61721, 62396,
       63076, 63760, 64448, 65141, 65837, 66539, 67244, 67954, 68669, 69387, 70110, 70838, 71569, 72306, 73046, 73791,
       74540, 75294, 76052, 76815, 77582, 78354, 79130, 79910, 80695, 81485, 82279, 83077, 83880, 84687, 85499, 86316,
       87137, 87962, 88792, 89627, 90466, 91310, 92158, 93011, 93869, 94731, 95597, 96469, 97345, 98225, 99110, 100000 >>

\* gamma_correct(v / 255.0) in units of 1/100000, for the channel value v that
\* int(.., 16) gave (negative for a signed pair such as "-1").
gamma_correct(v) ==
    IF v * 100000 <= GAMMA_THRESHOLD * 255
    THEN (v * 100000 * 100) \div (255 * GAMMA_DIVISOR)
    ELSE GammaPower[v + 1]

\* The three two-character channel slices of a normalized colour.
Channels(c) == <<SubSeq(c, 2, 3), SubSeq(c, 4, 5), SubSeq(c, 6, 7)>>

\* get_luminance: relative luminance in units of 1/100000; 0 for a value that
\* does not normalize and 0 when a channel slice raises ValueError.
get_luminance(hex_color) ==
    LET n == normalize_hex_color(hex_color)
    IN  IF n = None THEN 0
        ELSE IF \E i \in 1..3 : ~IsInt16(Channels(n)[i]) THEN 0
        ELSE (  LUMINANCE_R * gamma_correct(Int16(Channels(n)[1]))
              + LUMINANCE_G * gamma_correct(Int16(Channels(n)[2]))
              + LUMINANCE_B * gamma_correct(Int16(Channels(n)[3])) ) \div 10000

\* (lighter + 0.05) / (darker + 0.05), in units of 1/10000.
Ratio(lighter, darker) == ((lighter + 5000) * 10000) \div (darker + 5000)

\* calculate_contrast_ratio without the test that puts the brighter colour in
\* the numerator.
calculate_contrast_ratio_Unordered(c1, c2) ==
    Ratio(get_luminance(c1), get_luminance(c2))

calculate_contrast_ratio(c1, c2) ==
    LET lum1 == get_luminance(c1)
        lum2 == get_luminance(c2)
    IN  IF lum1 > lum2 THEN Ratio(lum1, lum2) ELSE Ratio(lum2, lum1)

(***************************************************************************)
(* validate_and_fix_colors                                                  *)
(***************************************************************************)
PrimaryKeys == <<"background", "foreground", "cursor">>
ColorNames == <<"black", "red", "green", "yellow", "blue", "magenta", "cyan", "white">>

fallback_colors ==
    [ background |-> <<"#", "2", "8", "2", "a", "3", "6">>,
      foreground |-> <<"#", "f", "8", "f", "8", "f", "2">>,
      normal |-> [ black |-> <<"#", "2", "1", "2", "2", "2", "c">>,
                  red |-> <<"#", "f", "f", "5", "5", "5", "5">>,
                  green |-> <<"#", "5", "0", "f", "a", "7", "b">>,
                  yellow |-> <<"#", "f", "1", "f", "a", "8", "c">>,
                  blue |-> <<"#", "b", "d", "9", "3", "f", "9">>,
                  magenta |-> <<"#", "f", "f", "7", "9", "c", "6">>,
                  cyan |-> <<"#", "8", "b", "e", "9", "f", "d">>,
                  white |-> <<"#", "f", "8", "f", "8", "f", "2">> ],
      bright |-> [ black |-> <<"#", "6", "2", "7", "2", "a", "4">>,
                  red |-> <<"#", "f", "f", "6", "e", "6", "e">>,
                  green |-> <<"#", "6", "9", "f", "f", "9", "4">>,
                  yellow |-> <<"#", "f", "f", "f", "f", "a", "5">>,
                  blue |-> <<"#", "d", "6", "a", "c", "f", "f">>,
                  magenta |-> <<"#", "f", "f", "9", "2", "d", "f">>,
                  cyan |-> <<"#", "a", "4", "f", "f", "f", "f">>,
                  white |-> <<"#", "f", "f", "f", "f", "f", "f">> ] ]

\* An empty dict.
EmptyDict == <<>>

\* d.get(key, default)
get(d, key, default) == IF key \in DOMAIN d THEN d[key] ELSE default

\* d[key] = value
put(d, key, value) == (key :> value) @@ d

\* fallback_colors.get(key) with no default: None for the cursor.
PrimaryFallback_NoDefault(key) == get(fallback_colors, key, None)

\* fallback_colors.get(key, fallback_colors['foreground'])
PrimaryFallback_Foreground(key) == get(fallback_colors, key, fallback_colors.foreground)

\* fallback_colors.get(key, fallback_colors['background'])
PrimaryFallback(key) == get(fallback_colors, key, fallback_colors.background)

\* The messages appended to issues_found. A field is <<key>> for a primary
\* colour and <<section, color_name>> for an ANSI slot.
InvalidIssue(field, value) ==
    [msg |-> "Invalid", field |-> field, value |-> value, note |-> "using fallback"]
MissingIssue(field) ==
    [msg |-> "Missing", field |-> field, note |-> "using fallback"]
DerivedIssue(field) ==
    [msg |-> "Missing", field |-> field, note |-> "derived from foreground"]
\* The message shows the ratio; the model keeps it unrounded.
LowContrastIssue(ratio) ==
    [msg |-> "Low contrast ratio", contrast |-> ratio]
AppliedFallbackIssue ==
    [msg |-> "Applied fallback colors due to extremely low contrast"]

\* PrimaryStep without the special handling of a missing cursor.
PrimaryStep_NoDerive(raw_colors, st, key) ==
    IF key \in DOMAIN raw_colors
    THEN LET n == normalize_hex_color(raw_colors[key])
         IN  IF n # None
             THEN [st EXCEPT !.fixed_colors = put(@, key, n)]
             ELSE [fixed_colors |-> put(st.fixed_colors, key, PrimaryFallback(key)),
                   issues_found |-> Append(st.issues_found,
                                           InvalidIssue(<<key>>, raw_colors[key]))]
    ELSE [fixed_colors |-> put(st.fixed_colors, key, PrimaryFallback(key)),
          issues_found |-> Append(st.issues_found, MissingIssue(<<key>>))]

\* One iteration of the loop over background, foreground, cursor.
PrimaryStep(raw_colors, st, key) ==
    IF key \in DOMAIN raw_colors
    THEN LET n == normalize_hex_color(raw_colors[key])
         IN  IF n # None
             THEN [st EXCEPT !.fixed_colors = put(@, key, n)]
             ELSE [fixed_colors |-> put(st.fixed_colors, key, PrimaryFallback(key)),
                   issues_found |-> Append(st.issues_found,
                                           InvalidIssue(<<key>>, raw_colors[key]))]
    ELSE IF key = "cursor" /\ "foreground" \in DOMAIN st.fixed_colors
         THEN [fixed_colors |-> put(st.fixed_colors, key, st.fixed_colors["foreground"]),
               issues_found |-> Append(st.issues_found, DerivedIssue(<<key>>))]
         ELSE [fixed_colors |-> put(st.fixed_colors, key, PrimaryFallback(key)),
               issues_found |-> Append(st.issues_found, MissingIssue(<<key>>))]

RECURSIVE PrimaryLoop(_, _, _)
PrimaryLoop(raw_colors, st, keys) ==
    IF keys = <<>> THEN st
    ELSE PrimaryLoop(raw_colors, PrimaryStep(raw_colors, st, Head(keys)), Tail(keys))

\* SectionStep taking every fallback from the normal table.
SectionStep_NormalFallback(section, section_colors, st, color_name) ==
    IF color_name \in DOMAIN section_colors
    THEN LET n == normalize_hex_color(section_colors[color_name])
         IN  IF n # None
             THEN [st EXCEPT !.fixed = put(@, color_name, n)]
             ELSE [fixed |-> put(st.fixed, color_name,
                                 fallback_colors["normal"][color_name]),
                   issues_found |-> Append(st.issues_found,
                       InvalidIssue(<<section, color_name>>,
                                    section_colors[color_name]))]
    ELSE [fixed |-> put(st.fixed, color_name, fallback_colors["normal"][color_name]),
          issues_found |-> Append(st.issues_found,
                                  MissingIssue(<<section, color_name>>))]

\* SectionStep keeping a valid value as written instead of normalized.
SectionStep_KeepsRaw(section, section_colors, st, color_name) ==
    IF color_name \in DOMAIN section_colors
    THEN LET n == normalize_hex_color(section_colors[color_name])
         IN  IF n # None
             THEN [st EXCEPT !.fixed = put(@, color_name, section_colors[color_name])]
             ELSE [fixed |-> put(st.fixed, color_name,
                                 fallback_colors[section][color_name]),
                   issues_found |-> Append(st.issues_found,
                       InvalidIssue(<<section, color_name>>,
                                    section_colors[color_name]))]
    ELSE [fixed |-> put(st.fixed, color_name, fallback_colors[section][color_name]),
          issues_found |-> Append(st.issues_found,
                                  MissingIssue(<<section, color_name>>))]

\* One iteration of the loop over the colour names of a section; st.fixed is
\* fixed_colors[section].
SectionStep(section, section_colors, st, color_name) ==
    IF color_name \in DOMAIN section_colors
    THEN LET n == normalize_hex_color(section_colors[color_name])
         IN  IF n # None
             THEN [st EXCEPT !.fixed = put(@, color_name, n)]
             ELSE [fixed |-> put(st.fixed, color_name,
                                 fallback_colors[section][color_name]),
                   issues_found |-> Append(st.issues_found,
                       InvalidIssue(<<section, color_name>>,
                                    section_colors[color_name]))]
    ELSE [fixed |-> put(st.fixed, color_name, fallback_colors[section][color_name]),
          issues_found |-> Append(st.issues_found,
                                  MissingIssue(<<section, color_name>>))]

RECURSIVE SectionLoop(_, _, _, _)
SectionLoop(section, section_colors, st, names) ==
    IF names = <<>> THEN st
    ELSE SectionLoop(section, section_colors,
                     SectionStep(section, section_colors, st, Head(names)),
                     Tail(names))

\* fixed_colors[section] filled from colors.get(section, {}).
FixSection(raw_colors, st, section) ==
    LET r == SectionLoop(section, get(raw_colors, section, EmptyDict),
                         [fixed |-> EmptyDict, issues_found |-> st.issues_found],
                         ColorNames)
    IN  [fixed_colors |-> put(st.fixed_colors, section, r.fixed),
         issues_found |-> r.issues_found]

\* ResolveSlots with the bright loop before the normal loop.
ResolveSlots_BrightFirst(raw_colors) ==
    LET primary == PrimaryLoop(raw_colors,
                               [fixed_colors |-> EmptyDict, issues_found |-> <<>>],
                               PrimaryKeys)
    IN  FixSection(raw_colors, FixSection(raw_colors, primary, "bright"), "normal")

\* The three loops: every slot resolved, before the contrast check.
ResolveSlots(raw_colors) ==
    LET primary == PrimaryLoop(raw_colors,
                               [fixed_colors |-> EmptyDict, issues_found |-> <<>>],
                               PrimaryKeys)
    IN  FixSection(raw_colors, FixSection(raw_colors, primary, "normal"), "bright")

\* CheckContrast applying the fallback pair below the readable threshold
\* already.
CheckContrast_OneThreshold(st) ==
    LET ratio == calculate_contrast_ratio(st.fixed_colors["background"],
                                          st.fixed_colors["foreground"])
    IN  IF ratio < MIN_READABLE_CONTRAST
        THEN [fixed_colors |->
                  put(put(st.fixed_colors, "background", fallback_colors.background),
                      "foreground", fallback_colors.foreground),
              issues_found |->
                  st.issues_found \o <<LowContrastIssue(ratio), AppliedFallbackIssue>>]
        ELSE st

\* CheckContrast recording the issues of too low a contrast and keeping the
\* pair.
CheckContrast_ReportsOnly(st) ==
    LET ratio == calculate_contrast_ratio(st.fixed_colors["background"],
                                          st.fixed_colors["foreground"])
    IN  IF ratio < MIN_READABLE_CONTRAST
        THEN IF ratio < MIN_ACCEPTABLE_CONTRAST
             THEN [st EXCEPT !.issues_found =
                       @ \o <<LowContrastIssue(ratio), AppliedFallbackIssue>>]
             ELSE [st EXCEPT !.issues_found = Append(@, LowContrastIssue(ratio))]
        ELSE st

\* CheckContrast replacing the cursor too, by the fallback foreground.
CheckContrast_OverridesCursor(st) ==
    LET ratio == calculate_contrast_ratio(st.fixed_colors["background"],
                                          st.fixed_colors["foreground"])
    IN  IF ratio < MIN_READABLE_CONTRAST
        THEN IF ratio < MIN_ACCEPTABLE_CONTRAST
             THEN [fixed_colors |->
                       put(put(put(st.fixed_colors, "background", fallback_colors.background),
                               "foreground", fallback_colors.foreground),
                           "cursor", fallback_colors.foreground),
                   issues_found |->
                       st.issues_found \o <<LowContrastIssue(ratio),
                                            AppliedFallbackIssue>>]
             ELSE [st EXCEPT !.issues_found = Append(@, LowContrastIssue(ratio))]
        ELSE st

\* The contrast check on the resolved background and foreground.
CheckContrast(st) ==
    LET ratio == calculate_contrast_ratio(st.fixed_colors["background"],
                                             st.fixed_colors["foreground"])
    IN  IF ratio < MIN_READABLE_CONTRAST
        THEN IF ratio < MIN_ACCEPTABLE_CONTRAST
             THEN [fixed_colors |->
                       put(put(st.fixed_colors, "background", fallback_colors.background),
                           "foreground", fallback_colors.foreground),
                   issues_found |->
                       st.issues_found \o <<LowContrastIssue(ratio),
                                            AppliedFallbackIssue>>]
             ELSE [st EXCEPT !.issues_found = Append(@, LowContrastIssue(ratio))]
        ELSE st

\* Returns fixed_colors and issues_found.
validate_and_fix_colors(raw_colors) == CheckContrast(ResolveSlots(raw_colors))

(***************************************************************************)
(* hex_to_rgb, rgb_to_hex, is_light_theme, adjust_color_for_theme,          *)
(* generate_ui_colors                                                       *)
(*                                                                          *)
(* A factor is an integer number of hundredths. The code multiplies in      *)
(* double precision; the operators below give the results the doubles give, *)
(* which differ from exact arithmetic in the cases listed with them.        *)
(***************************************************************************)
\* The three channels as integers; (0, 0, 0) when normalization fails or a
\* pair of characters is not an integer literal of base 16.
hex_to_rgb(hex_color) ==
    LET n == normalize_hex_color(hex_color)
    IN  IF n = None THEN <<0, 0, 0>>
        ELSE IF \A i \in 1..3 : IsInt16(Channels(n)[i])
             THEN <<Int16(Channels(n)[1]), Int16(Channels(n)[2]), Int16(Channels(n)[3])>>
             ELSE <<0, 0, 0>>

LowerDigits ==
    <<"0", "1", "2", "3", "4", "5", "6", "7", "8", "9", "a", "b", "c", "d", "e", "f">>

\* format(v, "02x"): two lower-case digits, more when two do not hold the
\* number; a negative number is a '-' and its magnitude, padded to width 2.
Format02x(v) ==
    LET m == IF v < 0 THEN -v ELSE v
        lo == <<LowerDigits[(m % 16) + 1]>>
        digits == IF m < 16 THEN lo ELSE <<LowerDigits[((m \div 16) % 16) + 1]>> \o lo
    IN  IF v < 0 THEN <<"-">> \o digits
        ELSE IF m < 16 THEN <<"0">> \o digits
        ELSE digits

rgb_to_hex(r, g, b) == <<"#">> \o Format02x(r) \o Format02x(g) \o Format02x(b)

\* The channels whose brightness (0.299 r + 0.587 g + 0.114 b) / 255.0 is
\* exactly 0.5 in real numbers and 0.5000000000000001 in doubles.
BrightnessRoundedUp == {<<218, 58, 248>>}

is_light_theme(background_color) ==
    LET n == normalize_hex_color(background_color)
    IN  IF n = None THEN FALSE
        ELSE LET rgb == hex_to_rgb(n)
             IN  \/ 299 * rgb[1] + 587 * rgb[2] + 114 * rgb[3] > 127500
                 \/ rgb \in BrightnessRoundedUp

\* The pairs of a channel magnitude and a multiplier (1 - factor or
\* 1 + factor, in 1/100) whose product is an integer in real numbers and
\* just below it in doubles, so that int() yields one less.
ProductRoundedDown ==
    {<<100, 115>>, <<180, 115>>, <<200, 115>>, <<220, 115>>,
     <<90, 70>>, <<170, 70>>, <<180, 70>>}

\* int(v * multiplier): truncation toward zero.
ScaleChannel(v, pct) ==
    LET m == IF v < 0 THEN -v ELSE v
        q == ((m * pct) \div 100) - (IF <<m, pct>> \in ProductRoundedDown THEN 1 ELSE 0)
    IN  IF v < 0 THEN -q ELSE q

Max(a, b) == IF a >= b THEN a ELSE b
Min(a, b) == IF a <= b THEN a ELSE b

adjust_color_for_theme(hex_color, is_light, factor) ==
    LET n == normalize_hex_color(hex_color)
    IN  IF n = None THEN hex_color
        ELSE LET rgb == hex_to_rgb(n)
             IN  IF is_light
                 THEN rgb_to_hex(Max(0, ScaleChannel(rgb[1], 100 - factor)),
                                 Max(0, ScaleChannel(rgb[2], 100 - factor)),
                                 Max(0, ScaleChannel(rgb[3], 100 - factor)))
                 ELSE rgb_to_hex(Min(255, ScaleChannel(rgb[1], 100 + factor)),
                                 Min(255, ScaleChannel(rgb[2], 100 + factor)),
                                 Min(255, ScaleChannel(rgb[3], 100 + factor)))

SurfaceNames ==
    {"side_bg", "panel_bg", "tab_bg", "input_bg", "list_bg", "hover_bg", "border_color"}

\* The factors of generate_ui_colors, in 1/100.
LightSchedule ==
    [side_bg |-> 15, panel_bg |-> 20, tab_bg |-> 10, input_bg |-> 5,
     list_bg |-> 10, hover_bg |-> 20, border_color |-> 30]
DarkSchedule ==
    [side_bg |-> 10, panel_bg |-> 15, tab_bg |-> 5, input_bg |-> 5,
     list_bg |-> 10, hover_bg |-> 15, border_color |-> 20]

Schedule_ListLeast(is_light) ==
    IF is_light THEN [LightSchedule EXCEPT !.list_bg = 0]
    ELSE [DarkSchedule EXCEPT !.list_bg = 0]

Schedule_LightOnly(is_light) == LightSchedule

Schedule(is_light) == IF is_light THEN LightSchedule ELSE DarkSchedule

generate_ui_colors(raw_colors, is_light) ==
    LET bg == get(raw_colors, "background", <<"#", "1", "e", "1", "e", "2", "e">>)
    IN  [s \in SurfaceNames |-> adjust_color_for_theme(bg, is_light, Schedule(is_light)[s])]

(***************************************************************************)
(* generate_vscode_theme                                                    *)
(*                                                                          *)
(* The document is the dict the code builds: a function of its three keys.  *)
(* A dict whose order matters (the colour customizations) is the sequence   *)
(* of its (key, value) pairs in insertion order.                            *)
(***************************************************************************)
\* The expressions the assembler writes as values.
Bg == [src |-> "background"]
Fg == [src |-> "foreground"]
Cursor == [src |-> "cursor"]
Ui(name) == [src |-> "ui_colors", name |-> name]
Normal(name, default) == [src |-> "normal", name |-> name, default |-> default]
Bright(name, default) == [src |-> "bright", name |-> name, default |-> default]
Literal(value) == [src |-> "literal", value |-> value]

\* The dict display of "workbench.colorCustomizations", entry by entry as
\* written (three keys are written twice).
ColorCustomizations ==
    <<
     <<"editor.background", Bg>>,
     <<"editor.foreground", Fg>>,
     <<"editor.emptyBackground", Bg>>,
     <<"editor.lineHighlightBackground", Ui("list_bg")>>,
     <<"editor.selectionBackground", Ui("tab_bg")>>,
     <<"editor.findMatchBackground", Normal("green", <<"#", "5", "0", "f", "a", "7", "b">>)>>,
     <<"editor.findMatchHighlightBackground", Ui("hover_bg")>>,
     <<"editorCursor.foreground", Cursor>>,
     <<"editorWhitespace.foreground", Normal("black", <<"#", "6", "2", "7", "2", "a", "4">>)>>,
     <<"editorIndentGuide.background", Ui("border_color")>>,
     <<"editorIndentGuide.activeBackground", Normal("green", <<"#", "5", "0", "f", "a", "7", "b">>)>>,
     <<"editor.lineHighlightBorder", Ui("border_color")>>,
     <<"editor.rangeHighlightBackground", Ui("hover_bg")>>,
     <<"editor.symbolHighlightBackground", Ui("hover_bg")>>,
     <<"editor.wordHighlightBackground", Ui("hover_bg")>>,
     <<"editor.wordHighlightStrongBackground", Ui("tab_bg")>>,
     <<"editorBracketMatch.background", Ui("border_color")>>,
     <<"editorBracketMatch.border", Normal("blue", <<"#", "8", "b", "e", "9", "f", "d">>)>>,
     <<"editorCodeLens.foreground", Normal("black", <<"#", "6", "2", "7", "2", "a", "4">>)>>,
     <<"editorError.foreground", Normal("red", <<"#", "f", "f", "5", "5", "5", "5">>)>>,
     <<"editorWarning.foreground", Normal("yellow", <<"#", "f", "1", "f", "a", "8", "c">>)>>,
     <<"editorInfo.foreground", Normal("blue", <<"#", "8", "b", "e", "9", "f", "d">>)>>,
     <<"editorHint.foreground", Normal("green", <<"#", "5", "0", "f", "a", "7", "b">>)>>,
     <<"editorGutter.background", Bg>>,
     <<"editorGutter.modifiedBackground", Normal("yellow", <<"#", "f", "1", "f", "a", "8", "c">>)>>,
     <<"editorGutter.addedBackground", Normal("green", <<"#", "5", "0", "f", "a", "7", "b">>)>>,
     <<"editorGutter.deletedBackground", Normal("red", <<"#", "f", "f", "5", "5", "5", "5">>)>>,
     <<"editorUnnecessaryCode.opacity", Literal(<<"0", ".", "4">>)>>,
     <<"editorSuggestWidget.background", Ui("input_bg")>>,
     <<"editorSuggestWidget.border", Ui("border_color")>>,
     <<"editorSuggestWidget.selectedBackground", Ui("list_bg")>>,
     <<"editorSuggestWidget.highlightForeground", Normal("blue", <<"#", "8", "b", "e", "9", "f", "d">>)>>,
     <<"editorHoverWidget.background", Ui("input_bg")>>,
     <<"editorHoverWidget.border", Ui("border_color")>>,
     <<"editorGroup.background", Bg>>,
     <<"editorGroup.border", Ui("border_color")>>,
     <<"editorGroupHeader.background", Ui("side_bg")>>,
     <<"editorGroupHeader.tabsBackground", Ui("side_bg")>>,
     <<"editorGroupHeader.tabsBorder", Ui("border_color")>>,
     <<"editorGroupHeader.noTabsBackground", Ui("side_bg")>>,
     <<"breadcrumb.background", Bg>>,
     <<"breadcrumb.foreground", Fg>>,
     <<"breadcrumb.focusForeground", Normal("blue", <<"#", "8", "b", "e", "9", "f", "d">>)>>,
     <<"breadcrumb.activeSelectionForeground", Fg>>,
     <<"breadcrumbPicker.background", Ui("input_bg")>>,
     <<"breadcrumbPicker.foreground", Fg>>,
     <<"sideBar.background", Ui("side_bg")>>,
     <<"sideBar.foreground", Fg>>,
     <<"sideBarTitle.foreground", Fg>>,
     <<"sideBarSectionHeader.background", Ui("border_color")>>,
     <<"sideBarSectionHeader.foreground", Fg>>,
     <<"activityBar.background", Ui("side_bg")>>,
     <<"activityBar.foreground", Fg>>,
     <<"activityBar.activeBorder", Normal("blue", <<"#", "8", "b", "e", "9", "f", "d">>)>>,
     <<"activityBar.activeBackground", Ui("hover_bg")>>,
     <<"activityBar.inactiveForeground", Normal("black", <<"#", "6", "2", "7", "2", "a", "4">>)>>,
     <<"activityBarBadge.background", Normal("red", <<"#", "f", "f", "5", "5", "5", "5">>)>>,
     <<"activityBarBadge.foreground", Bg>>,
     <<"statusBar.background", Ui("side_bg")>>,
     <<"statusBar.foreground", Fg>>,
     <<"statusBar.debuggingBackground", Normal("red", <<"#", "f", "f", "5", "5", "5", "5">>)>>,
     <<"statusBar.debuggingForeground", Fg>>,
     <<"statusBar.noFolderBackground", Ui("side_bg")>>,
     <<"statusBar.noFolderForeground", Fg>>,
     <<"statusBarItem.prominentBackground", Ui("tab_bg")>>,
     <<"statusBarItem.prominentForeground", Fg>>,
     <<"statusBarItem.hoverBackground", Ui("hover_bg")>>,
     <<"statusBarItem.errorBackground", Normal("red", <<"#", "f", "f", "5", "5", "5", "5">>)>>,
     <<"statusBarItem.errorForeground", Fg>>,
     <<"statusBarItem.warningBackground", Normal("yellow", <<"#", "f", "1", "f", "a", "8", "c">>)>>,
     <<"statusBarItem.warningForeground", Bg>>,
     <<"titleBar.activeBackground", Ui("side_bg")>>,
     <<"titleBar.activeForeground", Fg>>,
     <<"titleBar.inactiveBackground", Ui("panel_bg")>>,
     <<"titleBar.inactiveForeground", Normal("black", <<"#", "6", "2", "7", "2", "a", "4">>)>>,
     <<"tab.activeBackground", Ui("tab_bg")>>,
     <<"tab.activeForeground", Fg>>,
     <<"tab.inactiveBackground", Ui("side_bg")>>,
     <<"tab.inactiveForeground", Normal("black", <<"#", "6", "2", "7", "2", "a", "4">>)>>,
     <<"tab.border", Ui("border_color")>>,
     <<"tab.activeBorder", Normal("blue", <<"#", "8", "b", "e", "9", "f", "d">>)>>,
     <<"tab.hoverBackground", Ui("hover_bg")>>,
     <<"tab.hoverForeground", Fg>>,
     <<"tab.unfocusedActiveBackground", Ui("tab_bg")>>,
     <<"tab.unfocusedActiveForeground", Normal("black", <<"#", "6", "2", "7", "2", "a", "4">>)>>,
     <<"tab.unfocusedInactiveBackground", Ui("side_bg")>>,
     <<"tab.unfocusedInactiveForeground", Normal("black", <<"#", "6", "2", "7", "2", "a", "4">>)>>,
     <<"panel.background", Ui("panel_bg")>>,
     <<"panel.foreground", Fg>>,
     <<"panel.border", Ui("border_color")>>,
     <<"panelTitle.activeForeground", Fg>>,
     <<"panelTitle.inactiveForeground", Normal("black", <<"#", "6", "2", "7", "2", "a", "4">>)>>,
     <<"panelTitle.activeBorder", Normal("blue", <<"#", "8", "b", "e", "9", "f", "d">>)>>,
     <<"terminal.background", Bg>>,
     <<"terminal.foreground", Fg>>,
     <<"terminal.ansiBlack", Normal("black", <<"#", "0", "0", "0", "0", "0", "0">>)>>,
     <<"terminal.ansiRed", Normal("red", <<"#", "f", "f", "5", "5", "5", "5">>)>>,
     <<"terminal.ansiGreen", Normal("green", <<"#", "5", "0", "f", "a", "7", "b">>)>>,
     <<"terminal.ansiYellow", Normal("yellow", <<"#", "f", "1", "f", "a", "8", "c">>)>>,
     <<"terminal.ansiBlue", Normal("blue", <<"#", "b", "d", "9", "3", "f", "9">>)>>,
     <<"terminal.ansiMagenta", Normal("magenta", <<"#", "f", "f", "7", "9", "c", "6">>)>>,
     <<"terminal.ansiCyan", Normal("cyan", <<"#", "8", "b", "e", "9", "f", "d">>)>>,
     <<"terminal.ansiWhite", Normal("white", <<"#", "f", "8", "f", "8", "f", "2">>)>>,
     <<"terminal.ansiBrightBlack", Bright("black", <<"#", "6", "2", "7", "2", "a", "4">>)>>,
     <<"terminal.ansiBrightRed", Bright("red", <<"#", "f", "f", "6", "e", "6", "e">>)>>,
     <<"terminal.ansiBrightGreen", Bright("green", <<"#", "6", "9", "f", "f", "9", "4">>)>>,
     <<"terminal.ansiBrightYellow", Bright("yellow", <<"#", "f", "f", "f", "f", "a", "5">>)>>,
     <<"terminal.ansiBrightBlue", Bright("blue", <<"#", "d", "6", "a", "c", "f", "f">>)>>,
     <<"terminal.ansiBrightMagenta", Bright("magenta", <<"#", "f", "f", "9", "2", "d", "f">>)>>,
     <<"terminal.ansiBrightCyan", Bright("cyan", <<"#", "a", "4", "f", "f", "f", "f">>)>>,
     <<"terminal.ansiBrightWhite", Bright("white", <<"#", "f", "f", "f", "f", "f", "f">>)>>,
     <<"terminal.border", Ui("border_color")>>,
     <<"terminalCursor.background", Cursor>>,
     <<"terminalCursor.foreground", Bg>>,
     <<"input.background", Ui("input_bg")>>,
     <<"input.foreground", Fg>>,
     <<"input.border", Ui("border_color")>>,
     <<"input.placeholderForeground", Normal("black", <<"#", "6", "2", "7", "2", "a", "4">>)>>,
     <<"inputOption.activeBorder", Normal("blue", <<"#", "8", "b", "e", "9", "f", "d">>)>>,
     <<"inputValidation.infoBackground", Normal("blue", <<"#", "8", "b", "e", "9", "f", "d">>)>>,
     <<"inputValidation.infoBorder", Normal("blue", <<"#", "8", "b", "e", "9", "f", "d">>)>>,
     <<"inputValidation.warningBackground", Normal("yellow", <<"#", "f", "1", "f", "a", "8", "c">>)>>,
     <<"inputValidation.warningBorder", Normal("yellow", <<"#", "f", "1", "f", "a", "8", "c">>)>>,
     <<"inputValidation.errorBackground", Normal("red", <<"#", "f", "f", "5", "5", "5", "5">>)>>,
     <<"inputValidation.errorBorder", Normal("red", <<"#", "f", "f", "5", "5", "5", "5">>)>>,
     <<"dropdown.background", Ui("input_bg")>>,
     <<"dropdown.foreground", Fg>>,
     <<"dropdown.border", Ui("border_color")>>,
     <<"dropdown.listBackground", Ui("input_bg")>>,
     <<"list.activeSelectionBackground", Ui("list_bg")>>,
     <<"list.activeSelectionForeground", Fg>>,
     <<"list.hoverBackground", Ui("hover_bg")>>,
     <<"list.hoverForeground", Fg>>,
     <<"list.focusBackground", Ui("list_bg")>>,
     <<"list.focusForeground", Fg>>,
     <<"list.inactiveSelectionBackground", Ui("list_bg")>>,
     <<"list.inactiveSelectionForeground", Fg>>,
     <<"list.inactiveFocusBackground", Ui("list_bg")>>,
     <<"list.inactiveFocusForeground", Fg>>,
     <<"list.warningForeground", Normal("yellow", <<"#", "f", "1", "f", "a", "8", "c">>)>>,
     <<"list.errorForeground", Normal("red", <<"#", "f", "f", "5", "5", "5", "5">>)>>,
     <<"list.infoForeground", Normal("blue", <<"#", "8", "b", "e", "9", "f", "d">>)>>,
     <<"list.highlightForeground", Normal("blue", <<"#", "8", "b", "e", "9", "f", "d">>)>>,
     <<"list.deemphasizedForeground", Normal("black", <<"#", "6", "2", "7", "2", "a", "4">>)>>,
     <<"ai-prompt-bar.background", Ui("input_bg")>>,
     <<"ai-prompt-bar.foreground", Fg>>,
     <<"ai-prompt-bar.border", Normal("blue", <<"#", "8", "b", "e", "9", "f", "d">>)>>,
     <<"ai-prompt-bar.button.background", Ui("list_bg")>>,
     <<"ai-prompt-bar.button.foreground", Fg>>,
     <<"ai-prompt-bar.button.hoverBackground", Ui("hover_bg")>>,
     <<"ai-prompt-bar.button.keep.background", Normal("green", <<"#", "5", "0", "f", "a", "7", "b">>)>>,
     <<"ai-prompt-bar.button.keep.foreground", Bg>>,
     <<"chat.background", Ui("side_bg")>>,
     <<"chat.foreground", Fg>>,
     <<"chat.border", Normal("blue", <<"#", "8", "b", "e", "9", "f", "d">>)>>,
     <<"chat.requestBackground", Ui("input_bg")>>,
     <<"chat.responseBackground", Ui("list_bg")>>,
     <<"button.background", Ui("input_bg")>>,
     <<"button.foreground", Fg>>,
     <<"button.hoverBackground", Ui("hover_bg")>>,
     <<"button.border", Ui("border_color")>>,
     <<"button.secondaryBackground", Ui("panel_bg")>>,
     <<"button.secondaryForeground", Fg>>,
     <<"button.secondaryHoverBackground", Ui("hover_bg")>>,
     <<"button.prominentBackground", Normal("blue", <<"#", "8", "b", "e", "9", "f", "d">>)>>,
     <<"button.prominentForeground", Bg>>,
     <<"button.prominentHoverBackground", Bright("blue", <<"#", "d", "6", "a", "c", "f", "f">>)>>,
     <<"scrollbarSlider.background", Ui("border_color")>>,
     <<"scrollbarSlider.hoverBackground", Normal("black", <<"#", "6", "2", "7", "2", "a", "4">>)>>,
     <<"scrollbarSlider.activeBackground", Normal("blue", <<"#", "8", "b", "e", "9", "f", "d">>)>>,
     <<"focusBorder", Normal("blue", <<"#", "8", "b", "e", "9", "f", "d">>)>>,
     <<"contrastBorder", Ui("border_color")>>,
     <<"contrastActiveBorder", Normal("blue", <<"#", "8", "b", "e", "9", "f", "d">>)>>,
     <<"foreground", Fg>>,
     <<"disabledForeground", Normal("black", <<"#", "6", "2", "7", "2", "a", "4">>)>>,
     <<"errorForeground", Normal("red", <<"#", "f", "f", "5", "5", "5", "5">>)>>,
     <<"descriptionForeground", Normal("black", <<"#", "6", "2", "7", "2", "a", "4">>)>>,
     <<"widget.background", Ui("input_bg")>>,
     <<"widget.foreground", Fg>>,
     <<"widget.border", Ui("border_color")>>,
     <<"widget.shadow", Literal(<<"#", "0", "0", "0", "0", "0", "0", "4", "0">>)>>,
     <<"editorWidget.background", Ui("input_bg")>>,
     <<"editorWidget.foreground", Fg>>,
     <<"editorWidget.border", Ui("border_color")>>,
     <<"editorWidget.resizeBorder", Normal("blue", <<"#", "8", "b", "e", "9", "f", "d">>)>>,
     <<"inputOption.activeBackground", Normal("blue", <<"#", "8", "b", "e", "9", "f", "d">>)>>,
     <<"inputOption.activeForeground", Bg>>,
     <<"inputOption.activeBorder", Normal("blue", <<"#", "8", "b", "e", "9", "f", "d">>)>>,
     <<"inputOption.hoverBackground", Ui("hover_bg")>>,
     <<"selection.background", Normal("blue", <<"#", "8", "b", "e", "9", "f", "d">>)>>,
     <<"editorLineNumber.foreground", Normal("black", <<"#", "6", "2", "7", "2", "a", "4">>)>>,
     <<"editorLineNumber.activeForeground", Fg>>,
     <<"editorLineNumber.background", Bg>>,
     <<"actionItem.background", Ui("input_bg")>>,
     <<"actionItem.foreground", Fg>>,
     <<"actionItem.border", Ui("border_color")>>,
     <<"actionItem.hoverBackground", Ui("hover_bg")>>,
     <<"actionItem.hoverForeground", Fg>>,
     <<"actionItem.activeBackground", Ui("list_bg")>>,
     <<"actionItem.activeForeground", Fg>>,
     <<"actionItem.disabledForeground", Normal("black", <<"#", "6", "2", "7", "2", "a", "4">>)>>,
     <<"actionLabel.background", Ui("input_bg")>>,
     <<"actionLabel.foreground", Fg>>,
     <<"actionLabel.border", Ui("border_color")>>,
     <<"actionLabel.hoverBackground", Ui("hover_bg")>>,
     <<"actionLabel.hoverForeground", Fg>>,
     <<"actionLabel.activeBackground", Ui("list_bg")>>,
     <<"actionLabel.activeForeground", Fg>>,
     <<"actionLabel.disabledForeground", Normal("black", <<"#", "6", "2", "7", "2", "a", "4">>)>>,
     <<"menuEntry.background", Ui("input_bg")>>,
     <<"menuEntry.foreground", Fg>>,
     <<"menuEntry.border", Ui("border_color")>>,
     <<"menuEntry.hoverBackground", Ui("hover_bg")>>,
     <<"menuEntry.hoverForeground", Fg>>,
     <<"menuEntry.activeBackground", Ui("list_bg")>>,
     <<"menuEntry.activeForeground", Fg>>,
     <<"menuEntry.disabledForeground", Normal("black", <<"#", "6", "2", "7", "2", "a", "4">>)>>,
     <<"outlineElement.background", Ui("side_bg")>>,
     <<"outlineElement.foreground", Fg>>,
     <<"outlineElement.border", Ui("border_color")>>,
     <<"outlineElement.hoverBackground", Ui("hover_bg")>>,
     <<"outlineElement.hoverForeground", Fg>>,
     <<"outlineElement.activeBackground", Ui("list_bg")>>,
     <<"outlineElement.activeForeground", Fg>>,
     <<"outlineElement.icon", Normal("blue", <<"#", "8", "b", "e", "9", "f", "d">>)>>,
     <<"outlineElement.activeIcon", Normal("cyan", <<"#", "8", "b", "e", "9", "f", "d">>)>>,
     <<"outlineElement.inactiveIcon", Normal("black", <<"#", "6", "2", "7", "2", "a", "4">>)>>,
     <<"codicon.foreground", Normal("blue", <<"#", "8", "b", "e", "9", "f", "d">>)>>,
     <<"codicon.activeForeground", Normal("cyan", <<"#", "8", "b", "e", "9", "f", "d">>)>>,
     <<"codicon.inactiveForeground", Normal("black", <<"#", "6", "2", "7", "2", "a", "4">>)>>,
     <<"codicon.hoverForeground", Normal("cyan", <<"#", "8", "b", "e", "9", "f", "d">>)>>,
     <<"codicon.disabledForeground", Normal("black", <<"#", "6", "2", "7", "2", "a", "4">>)>>,
     <<"codicon.symbolClass", Normal("cyan", <<"#", "8", "b", "e", "9", "f", "d">>)>>,
     <<"codicon.symbolMethod", Normal("green", <<"#", "5", "0", "f", "a", "7", "b">>)>>,
     <<"codicon.symbolFunction", Normal("green", <<"#", "5", "0", "f", "a", "7", "b">>)>>,
     <<"codicon.symbolVariable", Normal("blue", <<"#", "8", "b", "e", "9", "f", "d">>)>>,
     <<"codicon.symbolInterface", Normal("cyan", <<"#", "8", "b", "e", "9", "f", "d">>)>>,
     <<"codicon.symbolModule", Normal("cyan", <<"#", "8", "b", "e", "9", "f", "d">>)>>,
     <<"codicon.symbolProperty", Normal("blue", <<"#", "8", "b", "e", "9", "f", "d">>)>>,
     <<"codicon.symbolEnum", Normal("yellow", <<"#", "f", "1", "f", "a", "8", "c">>)>>,
     <<"codicon.symbolKeyword", Normal("magenta", <<"#", "f", "f", "7", "9", "c", "6">>)>>,
     <<"codicon.symbolSnippet", Normal("green", <<"#", "5", "0", "f", "a", "7", "b">>)>>,
     <<"codicon.symbolColor", Normal("magenta", <<"#", "f", "f", "7", "9", "c", "6">>)>>,
     <<"codicon.symbolFile", Normal("cyan", <<"#", "8", "b", "e", "9", "f", "d">>)>>,
     <<"codicon.symbolReference", Normal("blue", <<"#", "8", "b", "e", "9", "f", "d">>)>>,
     <<"codicon.symbolFolder", Normal("blue", <<"#", "8", "b", "e", "9", "f", "d">>)>>,
     <<"codicon.symbolTypeParameter", Normal("cyan", <<"#", "8", "b", "e", "9", "f", "d">>)>>,
     <<"codicon.symbolUnit", Normal("yellow", <<"#", "f", "1", "f", "a", "8", "c">>)>>,
     <<"codicon.symbolValue", Normal("yellow", <<"#", "f", "1", "f", "a", "8", "c">>)>>,
     <<"codicon.symbolEnum", Normal("yellow", <<"#", "f", "1", "f", "a", "8", "c">>)>>,
     <<"codicon.symbolStruct", Normal("cyan", <<"#", "8", "b", "e", "9", "f", "d">>)>>,
     <<"codicon.symbolEvent", Normal("red", <<"#", "f", "f", "5", "5", "5", "5">>)>>,
     <<"codicon.symbolOperator", Normal("red", <<"#", "f", "f", "5", "5", "5", "5">>)>>,
     <<"codicon.symbolTypeParameter", Normal("cyan", <<"#", "8", "b", "e", "9", "f", "d">>)>>,
     <<"icon.foreground", Normal("blue", <<"#", "8", "b", "e", "9", "f", "d">>)>>,
     <<"icon.activeForeground", Normal("cyan", <<"#", "8", "b", "e", "9", "f", "d">>)>>,
     <<"icon.inactiveForeground", Normal("black", <<"#", "6", "2", "7", "2", "a", "4">>)>>,
     <<"icon.hoverForeground", Normal("cyan", <<"#", "8", "b", "e", "9", "f", "d">>)>>,
     <<"icon.disabledForeground", Normal("black", <<"#", "6", "2", "7", "2", "a", "4">>)>>,
     <<"icon.warningForeground", Normal("yellow", <<"#", "f", "1", "f", "a", "8", "c">>)>>,
     <<"icon.errorForeground", Normal("red", <<"#", "f", "f", "5", "5", "5", "5">>)>>,
     <<"icon.successForeground", Normal("green", <<"#", "5", "0", "f", "a", "7", "b">>)>>,
     <<"icon.infoForeground", Normal("blue", <<"#", "8", "b", "e", "9", "f", "d">>)>>,
     <<"symbolIcon.arrayForeground", Normal("yellow", <<"#", "f", "1", "f", "a", "8", "c">>)>>,
     <<"symbolIcon.booleanForeground", Normal("blue", <<"#", "8", "b", "e", "9", "f", "d">>)>>,
     <<"symbolIcon.classForeground", Normal("cyan", <<"#", "8", "b", "e", "9", "f", "d">>)>>,
     <<"symbolIcon.colorForeground", Normal("magenta", <<"#", "f", "f", "7", "9", "c", "6">>)>>,
     <<"symbolIcon.constantForeground", Normal("yellow", <<"#", "f", "1", "f", "a", "8", "c">>)>>,
     <<"symbolIcon.constructorForeground", Normal("green", <<"#", "5", "0", "f", "a", "7", "b">>)>>,
     <<"symbolIcon.enumeratorForeground", Normal("yellow", <<"#", "f", "1", "f", "a", "8", "c">>)>>,
     <<"symbolIcon.enumeratorMemberForeground", Normal("blue", <<"#", "8", "b", "e", "9", "f", "d">>)>>,
     <<"symbolIcon.eventForeground", Normal("red", <<"#", "f", "f", "5", "5", "5", "5">>)>>,
     <<"symbolIcon.fieldForeground", Normal("blue", <<"#", "8", "b", "e", "9", "f", "d">>)>>,
     <<"symbolIcon.fileForeground", Normal("cyan", <<"#", "8", "b", "e", "9", "f", "d">>)>>,
     <<"symbolIcon.folderForeground", Normal("blue", <<"#", "8", "b", "e", "9", "f", "d">>)>>,
     <<"symbolIcon.functionForeground", Normal("green", <<"#", "5", "0", "f", "a", "7", "b">>)>>,
     <<"symbolIcon.interfaceForeground", Normal("cyan", <<"#", "8", "b", "e", "9", "f", "d">>)>>,
     <<"symbolIcon.keyForeground", Normal("blue", <<"#", "8", "b", "e", "9", "f", "d">>)>>,
     <<"symbolIcon.keywordForeground", Normal("magenta", <<"#", "f", "f", "7", "9", "c", "6">>)>>,
     <<"symbolIcon.methodForeground", Normal("green", <<"#", "5", "0", "f", "a", "7", "b">>)>>,
     <<"symbolIcon.moduleForeground", Normal("cyan", <<"#", "8", "b", "e", "9", "f", "d">>)>>,
     <<"symbolIcon.namespaceForeground", Normal("cyan", <<"#", "8", "b", "e", "9", "f", "d">>)>>,
     <<"symbolIcon.nullForeground", Normal("red", <<"#", "f", "f", "5", "5", "5", "5">>)>>,
     <<"symbolIcon.numberForeground", Normal("yellow", <<"#", "f", "1", "f", "a", "8", "c">>)>>,
     <<"symbolIcon.objectForeground", Normal("blue", <<"#", "8", "b", "e", "9", "f", "d">>)>>,
     <<"symbolIcon.operatorForeground", Normal("red", <<"#", "f", "f", "5", "5", "5", "5">>)>>,
     <<"symbolIcon.packageForeground", Normal("cyan", <<"#", "8", "b", "e", "9", "f", "d">>)>>,
     <<"symbolIcon.propertyForeground", Normal("blue", <<"#", "8", "b", "e", "9", "f", "d">>)>>,
     <<"symbolIcon.referenceForeground", Normal("blue", <<"#", "8", "b", "e", "9", "f", "d">>)>>,
     <<"symbolIcon.snippetForeground", Normal("green", <<"#", "5", "0", "f", "a", "7", "b">>)>>,
     <<"symbolIcon.stringForeground", Normal("green", <<"#", "5", "0", "f", "a", "7", "b">>)>>,
     <<"symbolIcon.structForeground", Normal("cyan", <<"#", "8", "b", "e", "9", "f", "d">>)>>,
     <<"symbolIcon.textForeground", Fg>>,
     <<"symbolIcon.typeParameterForeground", Normal("cyan", <<"#", "8", "b", "e", "9", "f", "d">>)>>,
     <<"symbolIcon.unitForeground", Normal("yellow", <<"#", "f", "1", "f", "a", "8", "c">>)>>,
     <<"symbolIcon.variableForeground", Normal("blue", <<"#", "8", "b", "e", "9", "f", "d">>)>>,
     <<"debugIcon.startForeground", Normal("green", <<"#", "5", "0", "f", "a", "7", "b">>)>>,
     <<"debugIcon.pauseForeground", Normal("yellow", <<"#", "f", "1", "f", "a", "8", "c">>)>>,
     <<"debugIcon.stopForeground", Normal("red", <<"#", "f", "f", "5", "5", "5", "5">>)>>,
     <<"debugIcon.disconnectForeground", Normal("red", <<"#", "f", "f", "5", "5", "5", "5">>)>>,
     <<"debugIcon.restartForeground", Normal("green", <<"#", "5", "0", "f", "a", "7", "b">>)>>,
     <<"debugIcon.stepOverForeground", Normal("blue", <<"#", "8", "b", "e", "9", "f", "d">>)>>,
     <<"debugIcon.stepIntoForeground", Normal("blue", <<"#", "8", "b", "e", "9", "f", "d">>)>>,
     <<"debugIcon.stepOutForeground", Normal("blue", <<"#", "8", "b", "e", "9", "f", "d">>)>>,
     <<"debugIcon.continueForeground", Normal("green", <<"#", "5", "0", "f", "a", "7", "b">>)>>,
     <<"debugIcon.stepBackForeground", Normal("blue", <<"#", "8", "b", "e", "9", "f", "d">>)>>,
     <<"problemsErrorIcon.foreground", Normal("red", <<"#", "f", "f", "5", "5", "5", "5">>)>>,
     <<"problemsWarningIcon.foreground", Normal("yellow", <<"#", "f", "1", "f", "a", "8", "c">>)>>,
     <<"problemsInfoIcon.foreground", Normal("blue", <<"#", "8", "b", "e", "9", "f", "d">>)>>,
     <<"tree.expandIcon", Normal("blue", <<"#", "8", "b", "e", "9", "f", "d">>)>>,
     <<"tree.collapseIcon", Normal("blue", <<"#", "8", "b", "e", "9", "f", "d">>)>>,
     <<"commentsView.resolvedIcon", Normal("green", <<"#", "5", "0", "f", "a", "7", "b">>)>>,
     <<"commentsView.unresolvedIcon", Normal("blue", <<"#", "8", "b", "e", "9", "f", "d">>)>>
    >>

\* The list display of "textMateRules": the scopes and the foreground of
\* each rule.
TextMateRules ==
    <<
     [scope |-> <<"comment", "punctuation.definition.comment", "comment.line", "comment.block">>,
      foreground |-> Normal("black", <<"#", "6", "2", "7", "2", "a", "4">>)],
     [scope |-> <<"string", "string.quoted", "string.quoted.single", "string.quoted.double">>,
      foreground |-> Normal("green", <<"#", "5", "0", "f", "a", "7", "b">>)],
     [scope |-> <<"constant.numeric", "constant.numeric.integer", "constant.numeric.float">>,
      foreground |-> Normal("yellow", <<"#", "f", "1", "f", "a", "8", "c">>)],
     [scope |-> <<"constant.language", "constant.character", "constant.character.escape">>,
      foreground |-> Normal("red", <<"#", "f", "f", "5", "5", "5", "5">>)],
     [scope |-> <<"variable", "variable.other", "variable.parameter">>,
      foreground |-> Fg],
     [scope |-> <<"keyword", "storage.type", "storage.modifier", "storage.class">>,
      foreground |-> Normal("magenta", <<"#", "f", "f", "7", "9", "c", "6">>)],
     [scope |-> <<"entity.name.function", "support.function", "meta.function-call">>,
      foreground |-> Normal("blue", <<"#", "8", "b", "e", "9", "f", "d">>)],
     [scope |-> <<"entity.name.class", "entity.name.type", "support.class">>,
      foreground |-> Normal("cyan", <<"#", "8", "b", "e", "9", "f", "d">>)],
     [scope |-> <<"entity.name.tag", "support.type">>,
      foreground |-> Normal("green", <<"#", "5", "0", "f", "a", "7", "b">>)],
     [scope |-> <<"punctuation.definition.string", "punctuation.definition.parameters">>,
      foreground |-> Normal("black", <<"#", "6", "2", "7", "2", "a", "4">>)]
    >>

\* A dict display keeps each key at the place it is first written and gives
\* it the value written last.
FirstWritten(i) ==
    \A j \in 1..(i - 1) : ColorCustomizations[j][1] # ColorCustomizations[i][1]
LastWritten ==
    [i \in 1..Len(ColorCustomizations) |->
        CHOOSE j \in i..Len(ColorCustomizations) :
            /\ ColorCustomizations[j][1] = ColorCustomizations[i][1]
            /\ \A k \in (j + 1)..Len(ColorCustomizations) :
                   ColorCustomizations[k][1] # ColorCustomizations[i][1]]
KeyOrder == SelectSeq([i \in 1..Len(ColorCustomizations) |-> i], FirstWritten)

\* The value of one expression, given the assembler's locals.
Evaluate_InlineDefault(expr, env) ==
    CASE expr.src = "background" -> env.bg
      [] expr.src = "foreground" -> env.fg
      [] expr.src = "cursor" -> env.cursor
      [] expr.src = "ui_colors" -> env.ui[expr.name]
      [] expr.src = "normal" -> expr.default
      [] expr.src = "bright" -> expr.default
      [] expr.src = "literal" -> expr.value

Evaluate_BrightForNormal(expr, env) ==
    CASE expr.src = "background" -> env.bg
      [] expr.src = "foreground" -> env.fg
      [] expr.src = "cursor" -> env.cursor
      [] expr.src = "ui_colors" -> env.ui[expr.name]
      [] expr.src = "normal" -> get(env.bright, expr.name, expr.default)
      [] expr.src = "bright" -> get(env.bright, expr.name, expr.default)
      [] expr.src = "literal" -> expr.value

Evaluate(expr, env) ==
    CASE expr.src = "background" -> env.bg
      [] expr.src = "foreground" -> env.fg
      [] expr.src = "cursor" -> env.cursor
      [] expr.src = "ui_colors" -> env.ui[expr.name]
      [] expr.src = "normal" -> get(env.normal, expr.name, expr.default)
      [] expr.src = "bright" -> get(env.bright, expr.name, expr.default)
      [] expr.src = "literal" -> expr.value

\* The assembler's locals: lines 350-360.
Locals(raw_colors) ==
    LET fg == get(raw_colors, "foreground", <<"#", "c", "d", "d", "6", "f", "4">>)
    IN  [is_light |-> is_light_theme(get(raw_colors, "background", <<"#", "1", "e", "1", "e", "2", "e">>)),
         bg |-> get(raw_colors, "background", <<"#", "1", "e", "1", "e", "2", "e">>),
         fg |-> fg,
         normal |-> get(raw_colors, "normal", EmptyDict),
         bright |-> get(raw_colors, "bright", EmptyDict),
         cursor |-> get(raw_colors, "cursor", fg),
         ui |-> generate_ui_colors(raw_colors,
                    is_light_theme(get(raw_colors, "background", <<"#", "1", "e", "1", "e", "2", "e">>)))]

generate_vscode_theme(theme_name, raw_colors) ==
    LET env == Locals(raw_colors)
    IN  ("workbench.colorTheme" :> theme_name)
        @@ ("workbench.colorCustomizations" :>
               [n \in 1..Len(KeyOrder) |->
                   <<ColorCustomizations[KeyOrder[n]][1],
                     Evaluate(ColorCustomizations[LastWritten[KeyOrder[n]]][2], env)>>])
        @@ ("editor.tokenColorCustomizations" :>
               ("textMateRules" :>
                   [n \in 1..Len(TextMateRules) |->
                       [scope |-> TextMateRules[n].scope,
                        settings |-> [foreground |-> Evaluate(TextMateRules[n].foreground, env)]]]))

(***************************************************************************)
(* parse_alacritty_colors                                                   *)
(*                                                                          *)
(* The file's text is a sequence of characters; the regular expressions are *)
(* matched as re.search matches them, leftmost first.                       *)
(***************************************************************************)
\* The characters \s matches, of those the texts are made of.
Space == Whitespace \cup {"\n"}

\* The first index from i on at which sub occurs in s, 0 when there is none.
FindFrom(s, sub, i) ==
    LET At(p) == SubSeq(s, p, p + Len(sub) - 1) = sub
        last == Len(s) - Len(sub) + 1
    IN  IF \E p \in i..last : At(p)
        THEN CHOOSE p \in i..last : At(p) /\ \A q \in i..(p - 1) : ~At(q)
        ELSE 0

\* The first index from i on that holds no character of chars, Len(s) + 1
\* when there is none.
SkipWhile(s, chars, i) ==
    CHOOSE k \in i..(Len(s) + 1) :
        /\ k > Len(s) \/ s[k] \notin chars
        /\ \A j \in i..(k - 1) : s[j] \in chars

\* The first index from i on that holds a character of chars, Len(s) + 1
\* when there is none.
SkipUntil(s, chars, i) ==
    CHOOSE k \in i..(Len(s) + 1) :
        /\ k > Len(s) \/ s[k] \in chars
        /\ \A j \in i..(k - 1) : s[j] \notin chars

\* word\s*=\s*['"]([^'"]+)['"] matched at p, where word occurs: the group,
\* None when the match fails.
MatchAssignment(s, word, p) ==
    LET eq == SkipWhile(s, Space, p + Len(word))
        open == SkipWhile(s, Space, eq + 1)
        close == SkipUntil(s, Quotes, open + 1)
    IN  IF eq > Len(s) \/ s[eq] # "=" THEN None
        ELSE IF open > Len(s) \/ s[open] \notin Quotes THEN None
        ELSE IF close > Len(s) \/ close = open + 1 THEN None
        ELSE SubSeq(s, open + 1, close - 1)

\* re.search of that expression: the group of the leftmost match from i on.
RECURSIVE SearchAssignment(_, _, _)
SearchAssignment(s, word, i) ==
    LET p == FindFrom(s, word, i)
    IN  IF p = 0 THEN None
        ELSE IF MatchAssignment(s, word, p) # None THEN MatchAssignment(s, word, p)
        ELSE SearchAssignment(s, word, p + 1)

\* re.search of \[colors\.X\](.*?)(?=\[|$) with DOTALL: the text after the
\* first header up to the next '[', the newline that ends the text, or the
\* end of the text; None when the header does not occur.
SectionBody(s, header) ==
    LET p == FindFrom(s, header, 1)
        start == p + Len(header)
        bracket == SkipUntil(s, {"["}, start)
        stop == IF bracket > Len(s) /\ Len(s) >= start /\ s[Len(s)] = "\n"
                THEN Len(s)
                ELSE bracket
    IN  IF p = 0 THEN None ELSE SubSeq(s, start, stop - 1)

\* s.split(sep) for a separator of one character.
RECURSIVE split(_, _)
split(s, sep) ==
    LET i == SkipUntil(s, {sep}, 1)
    IN  IF i > Len(s) THEN <<s>>
        ELSE <<SubSeq(s, 1, i - 1)>> \o split(SubSeq(s, i + 1, Len(s)), sep)

\* One line of a section: lines 315-320.
ParseLine(d, line) ==
    LET i == SkipUntil(line, {"="}, 1)
        key == strip(SubSeq(line, 1, i - 1), Whitespace)
        value == strip(strip(SubSeq(line, i + 1, Len(line)), Whitespace), Quotes)
    IN  IF i > Len(line) THEN d
        ELSE IF key # <<>> /\ value # <<>> /\ ~startswith(key, <<"#">>)
        THEN put(d, key, value)
        ELSE d

RECURSIVE ParseLines(_, _, _)
ParseLines(d, lines, i) ==
    IF i > Len(lines) THEN d
    ELSE ParseLines(ParseLine(d, lines[i]), lines, i + 1)

\* The dict of one section, its keys as written: lines 311-321.
ParseSection(content, header) ==
    IF SectionBody(content, header) = None THEN EmptyDict
    ELSE ParseLines(EmptyDict, split(SectionBody(content, header), "\n"), 1)

WithMatch_Dropped(d, key, group) == d

\* colors[key] = group when the expression matches.
WithMatch(d, key, group) == IF group = None THEN d ELSE put(d, key, group)

Word_background == <<"b", "a", "c", "k", "g", "r", "o", "u", "n", "d">>
Word_foreground == <<"f", "o", "r", "e", "g", "r", "o", "u", "n", "d">>
Word_cursor == <<"c", "u", "r", "s", "o", "r">>
Header_normal == <<"[", "c", "o", "l", "o", "r", "s", ".", "n", "o", "r", "m", "a", "l", "]">>
Header_bright == <<"[", "c", "o", "l", "o", "r", "s", ".", "b", "r", "i", "g", "h", "t", "]">>

\* Lines 301-339: the dict filled from the text that was read.
ParseContent(content) ==
    WithMatch(
        put(put(WithMatch(WithMatch(EmptyDict,
                                    "background", SearchAssignment(content, Word_background, 1)),
                          "foreground", SearchAssignment(content, Word_foreground, 1)),
                "normal", ParseSection(content, Header_normal)),
            "bright", ParseSection(content, Header_bright)),
        "cursor", SearchAssignment(content, Word_cursor, 1))

\* parse_alacritty_colors returning a dict that already holds a background
\* when the file cannot be read.
parse_alacritty_colors_KeepsBackground(content) ==
    IF content = None
    THEN put(EmptyDict, "background", <<"#", "0", "0", "0", "0", "0", "0">>)
    ELSE ParseContent(content)

\* A file that cannot be read raises in line 298, and the dict is returned
\* empty; content is then None.
parse_alacritty_colors(content) ==
    IF content = None THEN EmptyDict ELSE ParseContent(content)

\* The colour names as the characters a file spells them with.
ColorNameChars ==
    [black |-> <<"b", "l", "a", "c", "k">>,
     red |-> <<"r", "e", "d">>,
     green |-> <<"g", "r", "e", "e", "n">>,
     yellow |-> <<"y", "e", "l", "l", "o", "w">>,
     blue |-> <<"b", "l", "u", "e">>,
     magenta |-> <<"m", "a", "g", "e", "n", "t", "a">>,
     cyan |-> <<"c", "y", "a", "n">>,
     white |-> <<"w", "h", "i", "t", "e">>]

\* The same dict with each colour name as the string the validator looks it
\* up by; the validator reads no other key of a section.
ByName(section) ==
    [n \in {m \in DOMAIN ColorNameChars : ColorNameChars[m] \in DOMAIN section} |->
        section[ColorNameChars[n]]]
WithNamedSections(raw_colors) ==
    [k \in DOMAIN raw_colors |->
        IF k \in {"normal", "bright"} THEN ByName(raw_colors[k]) ELSE raw_colors[k]]

(***************************************************************************)
(* generate_theme_for_name                                                  *)
(*                                                                          *)
(* The themes directory is whether it exists and a function from the names  *)
(* of its subdirectories to their files: toml is the text of alacritty.toml *)
(* (Absent when the file does not exist, None when it cannot be read),      *)
(* output the documents in <name>-theme-sync.json (none when the file does  *)
(* not exist, else one), writable whether that file can be opened for       *)
(* writing.                                                                 *)
(***************************************************************************)
\* Lines 849-870 for a source that exists: what is parsed, validated,
\* assembled and printed.
ThemeRun(theme_name, toml) ==
    LET raw == parse_alacritty_colors(toml)
        fixed == validate_and_fix_colors(WithNamedSections(raw))
    IN  [raw_colors |-> raw,
         colors |-> fixed.fixed_colors,
         issues |-> fixed.issues_found,
         vscode_theme |-> generate_vscode_theme(theme_name, fixed.fixed_colors),
         theme_type |->
             IF is_light_theme(get(fixed.fixed_colors, "background",
                                   <<"#", "1", "e", "1", "e", "2", "e">>))
             THEN "LIGHT" ELSE "DARK"]

\* Whether the call gets past the two existence checks of lines 833-840.
HasSource(dir, theme_name) ==
    /\ dir.exists
    /\ theme_name \in DOMAIN dir.themes
    /\ dir.themes[theme_name].toml # Absent

\* What the call returns: False without a source, True after the write; the
\* open of line 862 raises when the file is not writable.
ReturnOf(dir, theme_name) ==
    IF ~HasSource(dir, theme_name) THEN "False"
    ELSE IF ~dir.themes[theme_name].writable THEN "raised"
    ELSE "True"

\* The themes directory after the call.
WriteOutput(dir, theme_name, document) ==
    IF ReturnOf(dir, theme_name) = "True"
    THEN [dir EXCEPT !.themes[theme_name].output = <<document>>]
    ELSE dir

\* The name of the file line 861 writes, the field output of a theme.
OutputName(theme_name) == <<theme_name, "-theme-sync.json">>

\* Whether a theme directory holds a file of that name.
FileExists(dir, theme_name, file_name) ==
    /\ theme_name \in DOMAIN dir.themes
    /\ \/ file_name = <<"alacritty.toml">> /\ dir.themes[theme_name].toml # Absent
       \/ file_name = OutputName(theme_name) /\ dir.themes[theme_name].output # <<>>

(***************************************************************************)
(* generate_all_themes, check_theme_status                                  *)
(***************************************************************************)
Listed_EverySubdirectory(dir) == DOMAIN dir.themes

\* The subdirectories line 888 lists: those that hold an alacritty.toml.
Listed(dir) == {t \in DOMAIN dir.themes : dir.themes[t].toml # Absent}

StatusName_Legacy(theme_name) == <<theme_name, "-vscode.json">>

\* The name of the file line 921 looks for.
StatusName(theme_name) == <<theme_name, "-theme-sync.json">>

\* Lines 918-929: the themes printed as Complete and as Missing.
StatusOf(dir) ==
    [printed |-> TRUE,
     complete |-> {t \in Listed(dir) : FileExists(dir, t, StatusName(t))},
     missing |-> {t \in Listed(dir) : ~FileExists(dir, t, StatusName(t))}]

\* iterdir yields the entries in an order the file system chooses.
Orderings(S) ==
    {order \in [1..Cardinality(S) -> S] :
        \A i, j \in 1..Cardinality(S) : order[i] = order[j] => i = j}

(***************************************************************************)
(* integration_hooks.py: setup_integration, remove_integration              *)
(*                                                                          *)
(* A file is <<>> when it does not exist and <<content>> when it does. A    *)
(* file operation either takes effect or raises and leaves the file as it   *)
(* was; the point at which a call fails, if it does, is an input of the     *)
(* call.                                                                    *)
(***************************************************************************)
NoFile == <<>>

\* What _create_enhanced_theme_switcher writes: the script, and the alias that
\* execs it (lines 104-229).
EnhancedContent == "omarchy-theme-set-enhanced"
AliasContent == "exec omarchy-theme-set-enhanced"

NeedsBackup_Always(original, backup) == original # NoFile

\* Line 87: the original exists and no backup does.
NeedsBackup(original, backup) == original # NoFile /\ backup = NoFile

\* The points at which _setup_theme_switching_hooks can fail: the copy of
\* line 89, the open or the chmod of the enhanced script, the open or the
\* chmod of the alias.
SetupFailures == {"none", "backup", "enhanced", "enhanced_chmod", "alias", "alias_chmod"}

\* _setup_theme_switching_hooks with _create_enhanced_theme_switcher: the
\* three files after the call and whether it returned True.
SetupHooks(original, backup, enhanced, f) ==
    LET backed == IF NeedsBackup(original, backup) THEN original ELSE backup
    IN  IF f = "backup"
        THEN [original_script |-> original, backup_script |-> backup,
              enhanced_script |-> enhanced, ok |-> FALSE]
        ELSE IF f = "enhanced"
        THEN [original_script |-> original, backup_script |-> backed,
              enhanced_script |-> enhanced, ok |-> FALSE]
        ELSE IF f \in {"enhanced_chmod", "alias"}
        THEN [original_script |-> original, backup_script |-> backed,
              enhanced_script |-> <<EnhancedContent>>, ok |-> FALSE]
        ELSE [original_script |-> <<AliasContent>>, backup_script |-> backed,
              enhanced_script |-> <<EnhancedContent>>, ok |-> f = "none"]

\* The points at which remove_integration can fail: the copy of line 252 and
\* the unlinks of lines 253, 257 and 263.
RemoveFailures == {"none", "restore", "unlink_backup", "unlink_enhanced", "unlink_generator"}

\* remove_integration: the files after the call and whether it returned True.
Remove(original, backup, enhanced, generator, f) ==
    LET restored == IF backup # NoFile /\ f # "restore" THEN backup ELSE original
    IN  IF f = "restore"
        THEN [original_script |-> original, backup_script |-> backup,
              enhanced_script |-> enhanced, generator_path |-> generator, ok |-> FALSE]
        ELSE IF f = "unlink_backup"
        THEN [original_script |-> restored, backup_script |-> backup,
              enhanced_script |-> enhanced, generator_path |-> generator, ok |-> FALSE]
        ELSE IF f = "unlink_enhanced"
        THEN [original_script |-> restored, backup_script |-> NoFile,
              enhanced_script |-> enhanced, generator_path |-> generator, ok |-> FALSE]
        ELSE IF f = "unlink_generator"
        THEN [original_script |-> restored, backup_script |-> NoFile,
              enhanced_script |-> NoFile, generator_path |-> generator, ok |-> FALSE]
        ELSE [original_script |-> restored, backup_script |-> NoFile,
              enhanced_script |-> NoFile, generator_path |-> FALSE, ok |-> TRUE]

(***************************************************************************)
(* Inputs of the normalization runs                                         *)
(***************************************************************************)
Alphabet == {"#", "0", "x", "a", "A", " ", "\"", "+", "_"}

Examples ==
    { <<"0", "x", "A", "A", "B", "B", "C", "C">>,
      <<"#", "a", "b", "c">>,
      <<"n", "o", "t", "-", "a", "-", "c", "o", "l", "o", "r">>,
      <<"#", "a", "a", "b", "b", "c", "c">>,
      <<"#", "2", "8", "2", "a", "3", "6">>,
      <<"f", "8", "f", "8", "f", "2">>,
      <<"'", "#", "F", "F", "F", "F", "F", "F", "'">>,
      <<" ", "0", "x", "1", "e", "1", "e", "2", "e", " ">>,
      <<"0", "X", "A", "A", "B", "B", "C", "C">>,
      <<"#", "a", "a", "b", "b", "c", "c", "d", "d">>,
      <<"#", "g", "g", "g", "g", "g", "g">>,
      <<"+", "1", "2", "3", "4", "5">>,
      <<"#", "-", "1", "2", "3", "4", "5">>,
      <<"1", "_", "2", "3", "4", "5">>,
      <<"0", "x", "0", "x", "1", "2", "3", "4">>,
      <<"1", "2", "3", "4", "5", " ", "\"">> }

RawValues ==
    Examples \cup UNION {[1..n -> Alphabet] : n \in 0..MaxRawLen}

(***************************************************************************)
(* Inputs of the contrast runs                                              *)
(***************************************************************************)
ChannelSamples == {<<"0", "0">>, <<"0", "a">>, <<"0", "b">>, <<"8", "0">>, <<"f", "f">>}

\* Every colour whose channels are samples, and values that do not normalize
\* or whose channel slices int(.., 16) reads with a sign or rejects.
ContrastColors ==
    { <<"#">> \o r \o g \o b : r \in ChannelSamples, g \in ChannelSamples,
                               b \in ChannelSamples }
    \cup { <<"n", "o", "t", "-", "a", "-", "c", "o", "l", "o", "r">>,
           <<"#", "f", "f", "f">>,
           <<"0", "x", "2", "8", "2", "a", "3", "6">>,
           <<"#", "1", "_", "2", "3", "4", "5">>,
           <<"#", "-", "1", "0", "0", "0", "0">>,
           <<"+", "1", "2", "3", "4", "5">> }

(***************************************************************************)
(* Inputs of the surface runs                                               *)
(***************************************************************************)
SurfaceChannels ==
    {<<"0", "0">>, <<"0", "1">>, <<"1", "e">>, <<"5", "a">>, <<"6", "4">>,
     <<"b", "4">>, <<"f", "8">>, <<"f", "f">>}

\* Every colour whose channels are samples, the colours the documentation
\* names, a colour of brightness exactly 0.5, and values that do not
\* normalize or that int(.., 16) reads with a sign, a space or a prefix.
SurfaceColors ==
    { <<"#">> \o r \o g \o b : r \in SurfaceChannels, g \in SurfaceChannels,
                               b \in SurfaceChannels }
    \cup { <<"#", "1", "e", "1", "e", "2", "e">>,
           <<"#", "f", "8", "f", "8", "f", "2">>,
           <<"#", "2", "8", "2", "a", "3", "6">>,
           <<"#", "d", "a", "3", "a", "f", "8">>,
           <<"#", "0", "0", "c", "c", "4", "4">>,
           <<"0", "x", "F", "A", "F", "A", "F", "A">>,
           <<"#", "f", "f", "f">>,
           <<"n", "o", "t", "-", "a", "-", "c", "o", "l", "o", "r">>,
           <<"#", "-", "1", "0", "0", "0", "0">>,
           <<"#", "-", "f", "f", "f", "f", "f">>,
           <<"#", "f", "f", "f", "f", "f", " ">>,
           <<"#", "0", "x", "f", "f", "f", "f">> }

\* The factors of the schedules and the default factor.
Factors == {5, 10, 15, 20, 30}

(***************************************************************************)
(* Inputs of the theme runs                                                 *)
(***************************************************************************)
\* The lines of the primary colours: none, the minimal source of the
\* documentation, a pair of too low a contrast, a light pair under a header,
\* an invalid background alone.
PrimaryTexts ==
    {<<>>,
     <<"b", "a", "c", "k", "g", "r", "o", "u", "n", "d", " ", "=", " ", "\"", "#", "2", "8",
       "2", "a", "3", "6", "\"", "\n", "f", "o", "r", "e", "g", "r", "o", "u", "n", "d", " ",
       "=", " ", "\"", "#", "f", "8", "f", "8", "f", "2", "\"", "\n">>,
     <<"[", "c", "o", "l", "o", "r", "s", ".", "p", "r", "i", "m", "a", "r", "y", "]", "\n",
       "b", "a", "c", "k", "g", "r", "o", "u", "n", "d", " ", "=", " ", "\"", "#", "f", "f",
       "f", "f", "f", "f", "\"", "\n", "f", "o", "r", "e", "g", "r", "o", "u", "n", "d", " ",
       "=", " ", "'", "#", "f", "e", "f", "e", "f", "e", "'", "\n">>,
     <<"[", "c", "o", "l", "o", "r", "s", ".", "p", "r", "i", "m", "a", "r", "y", "]", "\n",
       "b", "a", "c", "k", "g", "r", "o", "u", "n", "d", " ", "=", " ", "\"", "0", "x", "F",
       "A", "F", "A", "F", "A", "\"", "\n", "f", "o", "r", "e", "g", "r", "o", "u", "n", "d",
       "=", "\"", "#", "3", "8", "3", "a", "4", "2", "\"", "\n">>,
     <<"b", "a", "c", "k", "g", "r", "o", "u", "n", "d", " ", "=", " ", "\"", "n", "o", "p",
       "e", "\"", "\n">>}
\* The lines of the cursor: none, a shorthand colour under a header, an
\* invalid value.
CursorTexts ==
    {<<>>,
     <<"[", "c", "o", "l", "o", "r", "s", ".", "c", "u", "r", "s", "o", "r", "]", "\n", "c",
       "u", "r", "s", "o", "r", " ", "=", " ", "\"", "#", "a", "b", "c", "\"", "\n">>,
     <<"c", "u", "r", "s", "o", "r", " ", "=", " ", "\"", "z", "z", "z", "\"", "\n">>}
\* The normal section: none, eight colours, and one with a comment, an empty
\* line, single quotes, a 0x prefix, no spaces, an invalid value and a line
\* without '='.
NormalTexts ==
    {<<>>,
     <<"[", "c", "o", "l", "o", "r", "s", ".", "n", "o", "r", "m", "a", "l", "]", "\n", "b",
       "l", "a", "c", "k", " ", "=", " ", "\"", "#", "1", "5", "1", "6", "1", "e", "\"", "\n",
       "r", "e", "d", " ", "=", " ", "\"", "#", "f", "7", "7", "6", "8", "e", "\"", "\n", "g",
       "r", "e", "e", "n", " ", "=", " ", "\"", "#", "9", "e", "c", "e", "6", "a", "\"", "\n",
       "y", "e", "l", "l", "o", "w", " ", "=", " ", "\"", "#", "e", "0", "a", "f", "6", "8",
       "\"", "\n", "b", "l", "u", "e", " ", "=", " ", "\"", "#", "7", "a", "a", "2", "f", "7",
       "\"", "\n", "m", "a", "g", "e", "n", "t", "a", " ", "=", " ", "\"", "#", "b", "b", "9",
       "a", "f", "7", "\"", "\n", "c", "y", "a", "n", " ", "=", " ", "\"", "#", "7", "d", "c",
       "f", "f", "f", "\"", "\n", "w", "h", "i", "t", "e", " ", "=", " ", "\"", "#", "a", "9",
       "b", "1", "d", "6", "\"", "\n">>,
     <<"[", "c", "o", "l", "o", "r", "s", ".", "n", "o", "r", "m", "a", "l", "]", "\n", "b",
       "l", "a", "c", "k", " ", "=", " ", "\"", "#", "2", "1", "2", "2", "2", "c", "\"", "\n",
       "#", " ", "r", "e", "d", " ", "=", " ", "\"", "#", "0", "0", "0", "0", "0", "0", "\"",
       "\n", "r", "e", "d", " ", "=", " ", "'", "#", "F", "F", "5", "5", "5", "5", "'", "\n",
       "\n", "g", "r", "e", "e", "n", "=", "\"", "0", "x", "5", "0", "f", "a", "7", "b", "\"",
       "\n", "y", "e", "l", "l", "o", "w", " ", "=", " ", "\"", "o", "o", "p", "s", "\"", "\n",
       "b", "l", "u", "e", "\n">>}
\* The bright section: none, two colours, eight colours.
BrightTexts ==
    {<<>>,
     <<"[", "c", "o", "l", "o", "r", "s", ".", "b", "r", "i", "g", "h", "t", "]", "\n", "b",
       "l", "a", "c", "k", " ", "=", " ", "\"", "#", "6", "2", "7", "2", "a", "4", "\"", "\n",
       "w", "h", "i", "t", "e", " ", "=", " ", "\"", "#", "f", "f", "f", "\"", "\n">>,
     <<"[", "c", "o", "l", "o", "r", "s", ".", "b", "r", "i", "g", "h", "t", "]", "\n", "b",
       "l", "a", "c", "k", " ", "=", " ", "\"", "#", "4", "1", "4", "8", "6", "8", "\"", "\n",
       "r", "e", "d", " ", "=", " ", "\"", "#", "f", "7", "7", "6", "8", "e", "\"", "\n", "g",
       "r", "e", "e", "n", " ", "=", " ", "\"", "#", "9", "e", "c", "e", "6", "a", "\"", "\n",
       "y", "e", "l", "l", "o", "w", " ", "=", " ", "\"", "#", "e", "0", "a", "f", "6", "8",
       "\"", "\n", "b", "l", "u", "e", " ", "=", " ", "\"", "#", "7", "a", "a", "2", "f", "7",
       "\"", "\n", "m", "a", "g", "e", "n", "t", "a", " ", "=", " ", "\"", "#", "b", "b", "9",
       "a", "f", "7", "\"", "\n", "c", "y", "a", "n", " ", "=", " ", "\"", "#", "7", "d", "c",
       "f", "f", "f", "\"", "\n", "w", "h", "i", "t", "e", " ", "=", " ", "\"", "#", "c", "0",
       "c", "a", "f", "5", "\"", "\n">>}

SourceTexts ==
    { p \o c \o n \o b : p \in PrimaryTexts, c \in CursorTexts,
                         n \in NormalTexts, b \in BrightTexts }

\* The minimal source of the documentation.
MinimalSource ==
    <<"b", "a", "c", "k", "g", "r", "o", "u", "n", "d", " ", "=", " ", "\"", "#", "2", "8",
      "2", "a", "3", "6", "\"", "\n", "f", "o", "r", "e", "g", "r", "o", "u", "n", "d",
      " ", "=", " ", "\"", "#", "f", "8", "f", "8", "f", "2", "\"", "\n">>

\* A theme directory: its alacritty.toml, whether its output can be written,
\* and no output yet.
ThemeFiles ==
    [toml : SourceTexts \cup {Absent, None}, writable : BOOLEAN, output : {<<>>}]

\* The texts of the section parse: an optional line of the primary colours,
\* a normal section of up to MaxLines different lines or none, and what comes
\* after it.
MaxLines == 2
SectionLines ==
    {<<"b", "l", "a", "c", "k", " ", "=", " ", "\"", "#", "0", "0", "0", "0", "0", "0",
       "\"", "\n">>,
     <<"r", "e", "d", " ", "=", " ", "'", "#", "f", "f", "0", "0", "0", "0", "'", "\n">>,
     <<"#", " ", "g", "r", "e", "e", "n", " ", "=", " ", "\"", "#", "0", "0", "f", "f",
       "0", "0", "\"", "\n">>,
     <<"b", "l", "u", "e", "\n">>,
     <<"\n">>,
     <<"#", " ", "s", "e", "e", " ", "[", "d", "o", "c", "s", "]", "\n">>,
     <<"w", "h", "i", "t", "e", " ", "=", " ", "\"", "#", "f", "f", "f", "f", "f", "f",
       "\"", " ", "#", " ", "[", "d", "i", "m", "]", "\n">>}
RECURSIVE Concat(_)
Concat(lines) == IF lines = <<>> THEN <<>> ELSE Head(lines) \o Concat(Tail(lines))
SectionBlocks ==
    {<<>>}
    \cup {Header_normal \o <<"\n">> \o Concat(lines) :
             lines \in {l \in UNION {[1..n -> SectionLines] : n \in 0..MaxLines} :
                           \A i, j \in DOMAIN l : l[i] = l[j] => i = j}}
FollowingTexts ==
    {<<>>,
     <<"[", "c", "o", "l", "o", "r", "s", ".", "b", "r", "i", "g", "h", "t", "]", "\n",
       "b", "l", "a", "c", "k", " ", "=", " ", "\"", "#", "5", "5", "5", "5", "5", "5",
       "\"", "\n">>,
     <<"[", "f", "o", "n", "t", "]", "\n", "s", "i", "z", "e", " ", "=", " ", "1", "2", "\n">>}
ParseTexts ==
    {p \o n \o f : p \in {<<>>, MinimalSource}, n \in SectionBlocks, f \in FollowingTexts}

\* The scripts omarchy-theme-set can be before the first setup, and the
\* number of setups of a run.
OriginalContents == {"omarchy-theme-set of omarchy", "omarchy-theme-set of the user"}
MaxSetups == 3

\* A themes directory that does not exist.
NoThemesDir == [exists |-> FALSE, themes |-> EmptyDict]

ThemeNames == {"dracula"}

\* A source of a light theme, with a cursor.
LightSource ==
    <<"[", "c", "o", "l", "o", "r", "s", ".", "p", "r", "i", "m", "a", "r", "y", "]", "\n",
      "b", "a", "c", "k", "g", "r", "o", "u", "n", "d", " ", "=", " ", "\"", "#", "f", "a",
      "f", "a", "f", "a", "\"", "\n", "f", "o", "r", "e", "g", "r", "o", "u", "n", "d",
      " ", "=", " ", "\"", "#", "3", "8", "3", "a", "4", "2", "\"", "\n", "c", "u", "r",
      "s", "o", "r", " ", "=", " ", "\"", "#", "5", "2", "6", "e", "f", "f", "\"", "\n">>

\* The subdirectories of a batch: each with one of two sources or none, the
\* source of the first not always readable; the output of the last cannot
\* always be written.
BatchNames == {"dracula", "gruvbox", "nord"}
BatchFiles(name) ==
    [toml : {Absent, MinimalSource, IF name = "dracula" THEN None ELSE LightSource},
     writable : IF name = "nord" THEN BOOLEAN ELSE {TRUE},
     output : {<<>>}]
BatchDirs ==
    {[exists |-> TRUE, themes |-> t] :
        t \in {f \in [BatchNames -> UNION {BatchFiles(n) : n \in BatchNames}] :
                  \A n \in BatchNames : f[n] \in BatchFiles(n)}}
    \cup {NoThemesDir, [exists |-> TRUE, themes |-> EmptyDict]}
\* The names a caller asks for: a theme of the directory and one it lacks.
RequestNames == ThemeNames \cup {"missing"}

(***************************************************************************)
(* Inputs of the validation runs                                            *)
(***************************************************************************)
BackgroundValues ==
    { Absent, <<"#", "f", "f", "f", "f", "f", "f">>, <<"0", "x", "1", "e", "1", "e", "2", "e">>,
      <<"n", "o", "t", "-", "a", "-", "c", "o", "l", "o", "r">> }
ForegroundValues ==
    { Absent, <<"#", "f", "e", "f", "e", "f", "e">>, <<"#", "9", "9", "9", "9", "9", "9">>,
      <<"+", "1", "2", "3", "4", "5">> }
CursorValues == { Absent, <<"#", "a", "b", "c">>, <<"z", "z", "z">> }

\* A palette as a theme's alacritty.toml gives it.
UserColors ==
    [ normal |-> [ black |-> <<"0", "x", "1", "5", "1", "6", "1", "e">>,
                   red |-> <<"0", "x", "f", "7", "7", "6", "8", "e">>,
                   green |-> <<"0", "x", "9", "e", "c", "e", "6", "a">>,
                   yellow |-> <<"0", "x", "e", "0", "a", "f", "6", "8">>,
                   blue |-> <<"0", "x", "7", "a", "a", "2", "f", "7">>,
                   magenta |-> <<"0", "x", "b", "b", "9", "a", "f", "7">>,
                   cyan |-> <<"0", "x", "7", "d", "c", "f", "f", "f">>,
                   white |-> <<"0", "x", "a", "9", "b", "1", "d", "6">> ],
      bright |-> [ black |-> <<"#", "4", "1", "4", "8", "6", "8">>,
                   red |-> <<"#", "F", "7", "7", "6", "8", "E">>,
                   green |-> <<"9", "e", "c", "e", "6", "a">>,
                   yellow |-> <<"#", "f", "c", "6">>,
                   blue |-> <<" ", "#", "7", "a", "a", "2", "f", "7">>,
                   magenta |-> <<"#", "b", "b", "9", "a", "f", "7">>,
                   cyan |-> <<"#", "7", "d", "c", "f", "f", "f">>,
                   white |-> <<"#", "c", "0", "c", "a", "f", "5">> ] ]

Sections == {"normal", "bright"}
NameSet == {ColorNames[i] : i \in 1..Len(ColorNames)}
AnsiSlots == Sections \X NameSet

\* A value that does not normalize.
BadValue == <<"#", "1", "2", "3", "4", "5">>

\* The 16 ANSI slots: all absent or all as in UserColors, except for at most
\* MaxDeviations slots, each of which is absent, invalid or as in UserColors.
AnsiBases ==
    { [s \in AnsiSlots |-> Absent], [s \in AnsiSlots |-> UserColors[s[1]][s[2]]] }
AnsiInputs ==
    UNION { UNION { { [s \in AnsiSlots |-> IF s \in D THEN ch[s] ELSE base[s]] :
                      ch \in [D -> {Absent, BadValue}]
                             \cup {[s \in D |-> UserColors[s[1]][s[2]]]} } :
                    D \in {D \in SUBSET AnsiSlots : Cardinality(D) <= MaxDeviations} } :
            base \in AnsiBases }

\* The dict of one section: the slots that are not absent.
SectionDict(a, section) ==
    [n \in {n \in NameSet : a[<<section, n>>] # Absent} |-> a[<<section, n>>]]

Optional(key, value) == IF value = Absent THEN EmptyDict ELSE (key :> value)

\* The palettes parse_alacritty_colors can return: the primary keys it found
\* and both sections; and the empty dict of a failed read.
RawPalettes ==
    { Optional("background", bg) @@ Optional("foreground", fg)
        @@ Optional("cursor", cur)
        @@ ("normal" :> SectionDict(a, "normal"))
        @@ ("bright" :> SectionDict(a, "bright")) :
      bg \in BackgroundValues, fg \in ForegroundValues, cur \in CursorValues,
      a \in AnsiInputs }
    \cup {EmptyDict}

(***************************************************************************)
(* Runs. Each specification makes the calls of one function; the variables  *)
(* of the others stay idle.                                                 *)
(***************************************************************************)
NormalizeIdle == color_value = None /\ normalized = None /\ renormalized = None
ContrastIdle ==
    color1 = None /\ color2 = None /\ contrast = 0 /\ contrast_swapped = 0
ValidateIdle ==
    colors = EmptyDict /\ fixed_colors = EmptyDict /\ issues_found = <<>>
SurfaceIdle ==
    /\ base_color = None
    /\ light = FALSE
    /\ amount = 0
    /\ adjusted = None
    /\ ui_colors = EmptyDict
ThemeIdle ==
    /\ themes_dir = NoThemesDir
    /\ requested = ""
    /\ parsed = EmptyDict
    /\ vscode_theme = EmptyDict
    /\ theme_type = "none"
    /\ returned = "none"
NoStatus == [printed |-> FALSE, complete |-> {}, missing |-> {}]
BatchIdle ==
    /\ theme_dirs = <<>> /\ processed = 0 /\ success_count = 0 /\ report = <<>>
    /\ status = NoStatus
ParseIdle == alacritty_file = <<>>
HookIdle ==
    /\ original_script = <<>> /\ backup_script = <<>> /\ enhanced_script = <<>>
    /\ generator_path = FALSE /\ first_script = <<>>
    /\ setup_calls = 0 /\ results = <<>>
ExtraIdle == SurfaceIdle /\ ThemeIdle /\ BatchIdle /\ ParseIdle /\ HookIdle

\* Normalization runs: one value is normalized, then its result is normalized
\* again.
InitNormalize ==
    /\ pc = "input"
    /\ color_value \in RawValues
    /\ normalized = None
    /\ renormalized = None
    /\ ContrastIdle
    /\ ValidateIdle
    /\ ExtraIdle

Normalize ==
    /\ pc = "input"
    /\ normalized' = normalize_hex_color(color_value)
    /\ pc' = "normalized"
    /\ UNCHANGED <<color_value, renormalized, contrastVars, validateVars, extraVars>>

Renormalize ==
    /\ pc = "normalized"
    /\ renormalized' = normalize_hex_color(normalized)
    /\ pc' = "renormalized"
    /\ UNCHANGED <<color_value, normalized, contrastVars, validateVars, extraVars>>

NextNormalize == Normalize \/ Renormalize

SpecNormalize == InitNormalize /\ [][NextNormalize]_vars

\* Contrast runs: the ratio of two values, then of the same two swapped.
InitContrast ==
    /\ pc = "input"
    /\ color1 \in ContrastColors
    /\ color2 \in ContrastColors
    /\ contrast = 0
    /\ contrast_swapped = 0
    /\ NormalizeIdle
    /\ ValidateIdle
    /\ ExtraIdle

Contrast ==
    /\ pc = "input"
    /\ contrast' = calculate_contrast_ratio(color1, color2)
    /\ pc' = "contrast"
    /\ UNCHANGED <<color1, color2, contrast_swapped, normalizeVars, validateVars, extraVars>>

ContrastSwapped ==
    /\ pc = "contrast"
    /\ contrast_swapped' = calculate_contrast_ratio(color2, color1)
    /\ pc' = "swapped"
    /\ UNCHANGED <<color1, color2, contrast, normalizeVars, validateVars, extraVars>>

NextContrast == Contrast \/ ContrastSwapped

SpecContrast == InitContrast /\ [][NextContrast]_vars

\* Validation runs: one raw palette is validated.
Init ==
    /\ pc = "input"
    /\ colors \in RawPalettes
    /\ fixed_colors = EmptyDict
    /\ issues_found = <<>>
    /\ NormalizeIdle
    /\ ContrastIdle
    /\ ExtraIdle

Validate ==
    /\ pc = "input"
    /\ \E r \in {validate_and_fix_colors(colors)} :
           /\ fixed_colors' = r.fixed_colors
           /\ issues_found' = r.issues_found
    /\ pc' = "validated"
    /\ UNCHANGED <<colors, normalizeVars, contrastVars, extraVars>>

Next == Validate

Spec == Init /\ [][Next]_vars

\* Surface runs: a background is classified and its surfaces are derived with
\* that classification, or one colour is adjusted in either direction by one
\* factor.
InitSurfaces ==
    /\ pc = "input"
    /\ base_color \in SurfaceColors \cup {Absent}
    /\ light = FALSE
    /\ amount = 0
    /\ adjusted = None
    /\ ui_colors = EmptyDict
    /\ NormalizeIdle
    /\ ContrastIdle
    /\ ValidateIdle
    /\ ThemeIdle
    /\ BatchIdle
    /\ ParseIdle
    /\ HookIdle

\* The palette generate_vscode_theme passes on: only its background matters.
SurfacePalette ==
    IF base_color = Absent THEN EmptyDict ELSE ("background" :> base_color)

Classify ==
    /\ pc = "input"
    /\ light' = is_light_theme(get(SurfacePalette, "background", <<"#", "1", "e", "1", "e", "2", "e">>))
    /\ pc' = "classified"
    /\ UNCHANGED <<base_color, amount, adjusted, ui_colors, normalizeVars, contrastVars, validateVars,
                 themeVars, batchVars, parseVars, hookVars>>

GenerateUi ==
    /\ pc = "classified"
    /\ ui_colors' = generate_ui_colors(SurfacePalette, light)
    /\ pc' = "surfaces"
    /\ UNCHANGED <<base_color, light, amount, adjusted, normalizeVars, contrastVars, validateVars,
                 themeVars, batchVars, parseVars, hookVars>>

Adjust ==
    /\ pc = "input"
    /\ base_color # Absent
    /\ \E l \in BOOLEAN, f \in Factors :
           /\ light' = l
           /\ amount' = f
           /\ adjusted' = adjust_color_for_theme(base_color, l, f)
    /\ pc' = "adjusted"
    /\ UNCHANGED <<base_color, ui_colors, normalizeVars, contrastVars, validateVars,
                 themeVars, batchVars, parseVars, hookVars>>

NextSurfaces == Classify \/ GenerateUi \/ Adjust

SpecSurfaces == InitSurfaces /\ [][NextSurfaces]_vars

\* Theme runs: generate_theme_for_name is called once on a themes directory
\* of one theme, or on a missing themes directory.
InitTheme ==
    /\ pc = "input"
    /\ themes_dir \in [exists : {TRUE}, themes : [ThemeNames -> ThemeFiles]] \cup {NoThemesDir}
    /\ requested = ""
    /\ parsed = EmptyDict
    /\ vscode_theme = EmptyDict
    /\ theme_type = "none"
    /\ returned = "none"
    /\ NormalizeIdle
    /\ ContrastIdle
    /\ ValidateIdle
    /\ SurfaceIdle
    /\ ParseIdle
    /\ HookIdle
    /\ BatchIdle

\* The call generate_theme_for_name(theme_name), but for what it returns.
CallGenerate(theme_name) ==
    /\ requested' = theme_name
    /\ IF HasSource(themes_dir, theme_name)
       THEN \E run \in {ThemeRun(theme_name, themes_dir.themes[theme_name].toml)} :
                /\ parsed' = run.raw_colors
                /\ colors' = WithNamedSections(run.raw_colors)
                /\ fixed_colors' = run.colors
                /\ issues_found' = run.issues
                /\ vscode_theme' = run.vscode_theme
                /\ themes_dir' = WriteOutput(themes_dir, theme_name, run.vscode_theme)
                /\ theme_type' =
                       IF ReturnOf(themes_dir, theme_name) = "True"
                       THEN run.theme_type ELSE theme_type
       ELSE UNCHANGED <<parsed, validateVars, vscode_theme, themes_dir, theme_type>>

GenerateThemeForName ==
    /\ pc = "input"
    /\ \E theme_name \in RequestNames :
           /\ CallGenerate(theme_name)
           /\ returned' = ReturnOf(themes_dir, theme_name)
    /\ pc' = "generated"
    /\ UNCHANGED <<normalizeVars, contrastVars, surfaceVars, batchVars, parseVars, hookVars>>

NextTheme == GenerateThemeForName

SpecTheme == InitTheme /\ [][NextTheme]_vars

\* Integration runs: from a bin directory with or without an
\* omarchy-theme-set, setup_integration is called up to MaxSetups times and
\* then remove_integration once.
InitIntegration ==
    /\ pc = "input"
    /\ original_script \in {NoFile} \cup {<<c>> : c \in OriginalContents}
    /\ first_script = original_script
    /\ backup_script = NoFile
    /\ enhanced_script = NoFile
    /\ generator_path = FALSE
    /\ setup_calls = 0
    /\ results = <<>>
    /\ NormalizeIdle
    /\ ContrastIdle
    /\ ValidateIdle
    /\ SurfaceIdle
    /\ ThemeIdle
    /\ BatchIdle
    /\ ParseIdle

\* setup_integration: the generator is installed or that fails, then the
\* hooks are set up; the result is the conjunction.
SetupIntegration ==
    /\ pc = "input"
    /\ setup_calls < MaxSetups
    /\ \E installed \in BOOLEAN, f \in SetupFailures :
           /\ f = "backup" => NeedsBackup(original_script, backup_script)
           /\ \E r \in {SetupHooks(original_script, backup_script, enhanced_script, f)} :
                  /\ original_script' = r.original_script
                  /\ backup_script' = r.backup_script
                  /\ enhanced_script' = r.enhanced_script
                  /\ results' = Append(results, installed /\ r.ok)
           /\ generator_path' = (generator_path \/ installed)
    /\ setup_calls' = setup_calls + 1
    /\ UNCHANGED <<pc, first_script, normalizeVars, contrastVars, validateVars,
                   surfaceVars, themeVars, batchVars, parseVars>>

RemoveIntegration ==
    /\ pc = "input"
    /\ \E f \in RemoveFailures :
           /\ f \in {"restore", "unlink_backup"} => backup_script # NoFile
           /\ f = "unlink_enhanced" => enhanced_script # NoFile
           /\ f = "unlink_generator" => generator_path
           /\ \E r \in {Remove(original_script, backup_script, enhanced_script,
                                generator_path, f)} :
                  /\ original_script' = r.original_script
                  /\ backup_script' = r.backup_script
                  /\ enhanced_script' = r.enhanced_script
                  /\ generator_path' = r.generator_path
                  /\ results' = Append(results, r.ok)
    /\ pc' = "removed"
    /\ UNCHANGED <<first_script, setup_calls, normalizeVars, contrastVars, validateVars,
                   surfaceVars, themeVars, batchVars, parseVars>>

NextIntegration == SetupIntegration \/ RemoveIntegration

SpecIntegration == InitIntegration /\ [][NextIntegration]_vars

\* Parse runs: parse_alacritty_colors is called once on a file of any of the
\* texts.
InitParse ==
    /\ pc = "input"
    /\ alacritty_file \in ParseTexts
    /\ NormalizeIdle
    /\ ContrastIdle
    /\ ValidateIdle
    /\ SurfaceIdle
    /\ ThemeIdle
    /\ BatchIdle
    /\ HookIdle

ParseAlacrittyColors ==
    /\ pc = "input"
    /\ parsed' = parse_alacritty_colors(alacritty_file)
    /\ pc' = "parsed"
    /\ UNCHANGED <<alacritty_file, themes_dir, requested, vscode_theme, theme_type, returned,
                   normalizeVars, contrastVars, validateVars, surfaceVars, batchVars,
                   hookVars>>

NextParse == ParseAlacrittyColors

SpecParse == InitParse /\ [][NextParse]_vars

\* Batch runs: generate_all_themes is called once on a themes directory; while
\* it loops, another process may delete a theme it has listed.
InitBatch ==
    /\ pc = "input"
    /\ themes_dir \in BatchDirs
    /\ requested = ""
    /\ parsed = EmptyDict
    /\ vscode_theme = EmptyDict
    /\ theme_type = "none"
    /\ returned = "none"
    /\ BatchIdle
    /\ NormalizeIdle
    /\ ContrastIdle
    /\ ValidateIdle
    /\ SurfaceIdle
    /\ ParseIdle
    /\ HookIdle

\* Lines 884-894: the directory is listed; without it, or without a theme in
\* it, the call returns False.
StartBatch ==
    /\ pc = "input"
    /\ IF ~themes_dir.exists
       THEN /\ returned' = "False"
            /\ pc' = "done"
            /\ UNCHANGED theme_dirs
       ELSE \E order \in Orderings(Listed(themes_dir)) :
                /\ theme_dirs' = order
                /\ returned' = IF order = <<>> THEN "False" ELSE returned
                /\ pc' = IF order = <<>> THEN "done" ELSE "looping"
    /\ UNCHANGED <<themes_dir, requested, parsed, vscode_theme, theme_type,
                   processed, success_count, report, status,
                   normalizeVars, contrastVars, validateVars, surfaceVars,
                   parseVars, hookVars>>

\* Lines 896-900: one turn of the loop. A call that raises ends the batch.
BatchStep ==
    /\ pc = "looping"
    /\ processed < Len(theme_dirs)
    /\ \E theme_name \in {theme_dirs[processed + 1]} :
           /\ CallGenerate(theme_name)
           /\ \E result \in {ReturnOf(themes_dir, theme_name)} :
                  /\ success_count' = IF result = "True" THEN success_count + 1 ELSE success_count
                  /\ processed' = IF result = "raised" THEN processed ELSE processed + 1
                  /\ returned' = IF result = "raised" THEN "raised" ELSE returned
                  /\ pc' = IF result = "raised" THEN "done" ELSE "looping"
    /\ UNCHANGED <<theme_dirs, report, status, normalizeVars, contrastVars,
                   surfaceVars, parseVars, hookVars>>

\* Lines 901-902: the counts are printed and compared.
FinishBatch ==
    /\ pc = "looping"
    /\ processed = Len(theme_dirs)
    /\ report' = <<success_count, Len(theme_dirs)>>
    /\ returned' = IF success_count = Len(theme_dirs) THEN "True" ELSE "False"
    /\ pc' = "done"
    /\ UNCHANGED <<themes_dir, requested, parsed, vscode_theme, theme_type,
                   theme_dirs, processed, success_count, status,
                   normalizeVars, contrastVars, validateVars, surfaceVars,
                   parseVars, hookVars>>

\* The environment: the directory of a listed theme the loop has not reached
\* is deleted.
ThemeRemoved ==
    /\ pc = "looping"
    /\ \E i \in (processed + 1)..Len(theme_dirs) :
           /\ theme_dirs[i] \in DOMAIN themes_dir.themes
           /\ themes_dir' =
                  [themes_dir EXCEPT !.themes =
                      [t \in DOMAIN themes_dir.themes \ {theme_dirs[i]} |-> @[t]]]
    /\ UNCHANGED <<pc, requested, parsed, vscode_theme, theme_type, returned,
                   batchVars, normalizeVars, contrastVars, validateVars, surfaceVars,
                   parseVars, hookVars>>

\* check_theme_status, run before or after the batch; without a themes
\* directory it returns at line 912.
CheckThemeStatus ==
    /\ pc \in {"input", "done"}
    /\ status' = IF themes_dir.exists THEN StatusOf(themes_dir) ELSE status
    /\ UNCHANGED <<pc, themes_dir, requested, parsed, vscode_theme, theme_type, returned,
                   theme_dirs, processed, success_count, report,
                   normalizeVars, contrastVars, validateVars, surfaceVars, parseVars, hookVars>>

NextBatch == StartBatch \/ BatchStep \/ FinishBatch \/ ThemeRemoved \/ CheckThemeStatus

SpecBatch == InitBatch /\ [][NextBatch]_vars

(***************************************************************************)
(* Properties of normalize_hex_color (SpecNormalize)                        *)
(***************************************************************************)
\* C7, as claimed: normalize maps "0xAABBCC" to "#aabbcc" and "#abc" to
\* "#aabbcc", and fails on "not-a-color".
C7_ExamplesLowercased ==
    pc # "input" =>
        /\ color_value = <<"0", "x", "A", "A", "B", "B", "C", "C">> => normalized = <<"#", "a", "a", "b", "b", "c", "c">>
        /\ color_value = <<"#", "a", "b", "c">> => normalized = <<"#", "a", "a", "b", "b", "c", "c">>
        /\ color_value = <<"n", "o", "t", "-", "a", "-", "c", "o", "l", "o", "r">> => normalized = None

\* C7, amended: normalize maps "0xAABBCC" to "#AABBCC" (the 0x prefix rewritten
\* to '#', the case of the digits kept), "#abc" to "#aabbcc" (each digit
\* duplicated), and fails on "not-a-color".
C7_ExamplesCaseKept ==
    pc # "input" =>
        /\ color_value = <<"0", "x", "A", "A", "B", "B", "C", "C">> => normalized = <<"#", "A", "A", "B", "B", "C", "C">>
        /\ color_value = <<"#", "a", "b", "c">> => normalized = <<"#", "a", "a", "b", "b", "c", "c">>
        /\ color_value = <<"n", "o", "t", "-", "a", "-", "c", "o", "l", "o", "r">> => normalized = None

C7_Witness ==
    /\ pc = "normalized"
    /\ color_value = <<"0", "x", "A", "A", "B", "B", "C", "C">>
    /\ normalized = <<"#", "A", "A", "B", "B", "C", "C">>

\* '#' followed by exactly six hexadecimal digits.
IsCanonical(c) ==
    /\ Len(c) = 7
    /\ c[1] = "#"
    /\ \A i \in 2..7 : c[i] \in HexDigits

\* C8: normalize either fails or returns '#' followed by exactly six
\* hexadecimal digits; no sign, whitespace or underscore is accepted.
C8_OnlyHexDigitsAccepted ==
    pc # "input" => normalized = None \/ IsCanonical(normalized)

\* C9: normalize(normalize(x)) = normalize(x) for every x that normalize
\* accepts, and a canonical #rrggbb value is returned unchanged.
C9_Idempotent ==
    /\ pc = "renormalized" /\ normalized # None => renormalized = normalized
    /\ pc # "input" /\ IsCanonical(color_value) => normalized = color_value

(***************************************************************************)
(* Properties of calculate_contrast_ratio (SpecContrast)                    *)
(***************************************************************************)
\* C10: the contrast ratio is the same with its arguments swapped, is exactly
\* 1.0 for two equal colours, and is at least 1.0 for any two colours.
C10_SymmetricAtLeastOne ==
    /\ pc = "swapped" => contrast = contrast_swapped
    /\ pc # "input" => contrast >= 10000
    /\ pc # "input" /\ color1 = color2 => contrast = 10000

C10_Witness ==
    /\ pc = "swapped"
    /\ get_luminance(color1) < get_luminance(color2)
    /\ contrast = contrast_swapped
    /\ contrast > 10000

\* C11: the contrast ratio of #000000 and #ffffff is 21.0, and no pair of
\* colours that is_valid_hex_color accepts has a contrast ratio above 21.0.
C11_MaximumTwentyOne ==
    pc # "input" =>
        /\ /\ color1 = <<"#", "0", "0", "0", "0", "0", "0">>
           /\ color2 = <<"#", "f", "f", "f", "f", "f", "f">>
           => contrast = 210000
        /\ is_valid_hex_color(color1) /\ is_valid_hex_color(color2)
           => contrast <= 210000

(***************************************************************************)
(* Properties of is_light_theme, adjust_color_for_theme and                 *)
(* generate_ui_colors (SpecSurfaces)                                        *)
(***************************************************************************)
\* The background that was classified.
ClassifiedColor ==
    IF base_color = Absent THEN <<"#", "1", "e", "1", "e", "2", "e">> ELSE base_color

\* 1000 * 255 * brightness of the channels, in exact arithmetic.
Brightness(rgb) == 299 * rgb[1] + 587 * rgb[2] + 114 * rgb[3]

\* C12: a background is LIGHT exactly when (0.299 R + 0.587 G + 0.114 B) / 255
\* is strictly greater than 0.5, and DARK otherwise, a brightness of exactly
\* 0.5 and a background that fails normalization included; #1e1e2e is DARK and
\* #f8f8f2 is LIGHT.
C12_LightAboveHalf ==
    pc \in {"classified", "surfaces"} =>
        /\ normalize_hex_color(ClassifiedColor) = None => ~light
        /\ normalize_hex_color(ClassifiedColor) # None =>
               (light <=> Brightness(hex_to_rgb(ClassifiedColor)) > 127500)
        /\ ClassifiedColor = <<"#", "1", "e", "1", "e", "2", "e">> => ~light
        /\ ClassifiedColor = <<"#", "f", "8", "f", "8", "f", "2">> => light

\* C13: for every colour is_valid_hex_color accepts and every factor of the
\* schedule, each channel of the adjusted colour is in 0..255, darkening
\* raises no channel and lightening lowers none.
C13_ClampedMonotone ==
    pc = "adjusted" /\ is_valid_hex_color(base_color) =>
        /\ IsCanonical(adjusted)
        /\ \A i \in 1..3 :
               IF light
               THEN hex_to_rgb(adjusted)[i] <= hex_to_rgb(base_color)[i]
               ELSE hex_to_rgb(adjusted)[i] >= hex_to_rgb(base_color)[i]

\* The factor generate_ui_colors applies to a surface in the run's schedule.
FactorOf(s) == Schedule(light)[s]

\* How far a surface's channel is from the background's.
Distance(s, i) ==
    LET d == hex_to_rgb(ui_colors[s])[i] - hex_to_rgb(ClassifiedColor)[i]
    IN  IF d < 0 THEN -d ELSE d

\* C14, as claimed: in the LIGHT and in the DARK schedule the magnitudes
\* satisfy hover >= border >= panel >= side >= tab >= list >= input.
C14_HoverMost ==
    pc = "surfaces" =>
        /\ FactorOf("hover_bg") >= FactorOf("border_color")
        /\ FactorOf("border_color") >= FactorOf("panel_bg")
        /\ FactorOf("panel_bg") >= FactorOf("side_bg")
        /\ FactorOf("side_bg") >= FactorOf("tab_bg")
        /\ FactorOf("tab_bg") >= FactorOf("list_bg")
        /\ FactorOf("list_bg") >= FactorOf("input_bg")

\* The order the code's schedules have, largest first.
SurfaceOrder ==
    <<"border_color", "hover_bg", "panel_bg", "side_bg", "list_bg", "tab_bg", "input_bg">>

\* C14, amended: in the LIGHT and in the DARK schedule the magnitudes satisfy
\* border >= hover >= panel >= side >= list >= tab >= input, and for a
\* background of six hexadecimal digits every channel of a surface is at
\* least as far from the background's as that of the next surface.
C14_BorderMost ==
    pc = "surfaces" =>
        \A k \in 1..6 :
            /\ FactorOf(SurfaceOrder[k]) >= FactorOf(SurfaceOrder[k + 1])
            /\ IsCanonical(ClassifiedColor) =>
                   \A i \in 1..3 :
                       Distance(SurfaceOrder[k], i) >= Distance(SurfaceOrder[k + 1], i)

C14_Witness ==
    /\ pc = "surfaces"
    /\ ~light
    /\ IsCanonical(ClassifiedColor)
    /\ Distance("border_color", 1) > Distance("hover_bg", 1)
    /\ Distance("list_bg", 1) > Distance("tab_bg", 1)

\* C15: for a LIGHT palette all seven surfaces are the background darkened,
\* by 0.05 at least (input) and 0.3 at most (border); for a DARK palette all
\* seven are the background lightened, by another schedule, 0.2 at most
\* (border).
C15_DarkenedOrLightened ==
    pc = "surfaces" =>
        /\ LightSchedule # DarkSchedule
        /\ light =>
               /\ ui_colors["input_bg"] = adjust_color_for_theme(ClassifiedColor, TRUE, 5)
               /\ ui_colors["border_color"] = adjust_color_for_theme(ClassifiedColor, TRUE, 30)
               /\ \A s \in SurfaceNames : LightSchedule[s] \in 5..30
               /\ IsCanonical(ClassifiedColor) =>
                      \A s \in SurfaceNames, i \in 1..3 :
                          /\ hex_to_rgb(ui_colors[s])[i] <= hex_to_rgb(ui_colors["input_bg"])[i]
                          /\ hex_to_rgb(ui_colors[s])[i] >= hex_to_rgb(ui_colors["border_color"])[i]
                          /\ hex_to_rgb(ui_colors["input_bg"])[i] <= hex_to_rgb(ClassifiedColor)[i]
        /\ ~light =>
               /\ ui_colors["border_color"] = adjust_color_for_theme(ClassifiedColor, FALSE, 20)
               /\ \A s \in SurfaceNames : DarkSchedule[s] <= 20
               /\ IsCanonical(ClassifiedColor) =>
                      \A s \in SurfaceNames, i \in 1..3 :
                          /\ hex_to_rgb(ui_colors[s])[i] >= hex_to_rgb(ClassifiedColor)[i]
                          /\ hex_to_rgb(ui_colors[s])[i] <= hex_to_rgb(ui_colors["border_color"])[i]

C15_Witness ==
    /\ pc = "surfaces"
    /\ light
    /\ ClassifiedColor = <<"#", "f", "8", "f", "8", "f", "2">>
    /\ ui_colors["input_bg"] = <<"#", "e", "b", "e", "b", "e", "5">>
    /\ ui_colors["border_color"] = <<"#", "a", "d", "a", "d", "a", "9">>

(***************************************************************************)
(* Properties of validate_and_fix_colors (Spec)                             *)
(***************************************************************************)
\* What the raw palette holds for a primary key or an ANSI slot.
RawPrimary(key) == IF key \in DOMAIN colors THEN colors[key] ELSE Absent
RawSlot(section, name) ==
    IF section \in DOMAIN colors /\ name \in DOMAIN colors[section]
    THEN colors[section][name]
    ELSE Absent

\* The user's colour: the normalized raw value, None when absent or invalid.
UserColor(raw) == IF raw = Absent THEN None ELSE normalize_hex_color(raw)

\* Background and foreground as the slots resolve them: the user's colour,
\* else the fallback.
ResolvedPrimary(key) ==
    IF UserColor(RawPrimary(key)) # None
    THEN UserColor(RawPrimary(key))
    ELSE fallback_colors[key]
ResolvedContrast ==
    calculate_contrast_ratio(ResolvedPrimary("background"),
                             ResolvedPrimary("foreground"))

\* A slot that holds a colour.
Populated(c) == c # None /\ c # Absent /\ Len(c) > 0

\* The issues of one message.
IssuesWith(msg) ==
    {i \in 1..Len(issues_found) : issues_found[i].msg = msg}
\* The issues about one field.
IssuesAbout(field) ==
    {i \in 1..Len(issues_found) :
        "field" \in DOMAIN issues_found[i] /\ issues_found[i].field = field}
LowContrastMsg == "Low contrast ratio"
AppliedFallbackMsg == "Applied fallback colors due to extremely low contrast"

AllFields ==
    {<<"background">>, <<"foreground">>, <<"cursor">>}
    \cup {<<section, name>> : section \in Sections, name \in NameSet}

\* C1: for every raw palette, validate returns a palette in which background,
\* foreground, cursor and exactly the 8 canonical slots of normal and of bright
\* are populated.
C1_FullyPopulated ==
    pc = "validated" =>
        /\ DOMAIN fixed_colors = {"background", "foreground", "cursor", "normal", "bright"}
        /\ \A key \in {"background", "foreground", "cursor"} :
               Populated(fixed_colors[key])
        /\ \A section \in Sections :
               /\ DOMAIN fixed_colors[section] = NameSet
               /\ \A name \in NameSet : Populated(fixed_colors[section][name])

C1_Witness ==
    /\ pc = "validated"
    /\ "background" \notin DOMAIN colors
    /\ RawPrimary("cursor") # Absent /\ UserColor(RawPrimary("cursor")) = None
    /\ \E name \in NameSet : RawSlot("normal", name) = BadValue
    /\ \E name \in NameSet : RawSlot("bright", name) = Absent
    /\ Populated(fixed_colors["cursor"])

\* C2: with r the contrast ratio of the resolved background and foreground:
\* r >= 3.0 records no contrast issue; 2.0 <= r < 3.0 records exactly one
\* low-contrast issue and keeps the colours; r < 2.0 records the low-contrast
\* issue, overwrites background and foreground with the fallback pair and
\* records the distinct applied-fallback issue.
C2_ContrastBands ==
    pc = "validated" =>
        \A r \in {ResolvedContrast} :
            /\ r >= MIN_READABLE_CONTRAST =>
                   /\ IssuesWith(LowContrastMsg) = {}
                   /\ IssuesWith(AppliedFallbackMsg) = {}
                   /\ fixed_colors["background"] = ResolvedPrimary("background")
                   /\ fixed_colors["foreground"] = ResolvedPrimary("foreground")
            /\ r >= MIN_ACCEPTABLE_CONTRAST /\ r < MIN_READABLE_CONTRAST =>
                   /\ Cardinality(IssuesWith(LowContrastMsg)) = 1
                   /\ IssuesWith(AppliedFallbackMsg) = {}
                   /\ fixed_colors["background"] = ResolvedPrimary("background")
                   /\ fixed_colors["foreground"] = ResolvedPrimary("foreground")
            /\ r < MIN_ACCEPTABLE_CONTRAST =>
                   /\ Cardinality(IssuesWith(LowContrastMsg)) = 1
                   /\ Cardinality(IssuesWith(AppliedFallbackMsg)) = 1
                   /\ fixed_colors["background"] = fallback_colors.background
                   /\ fixed_colors["foreground"] = fallback_colors.foreground

C2_Witness ==
    /\ pc = "validated"
    /\ RawPrimary("background") = <<"#", "f", "f", "f", "f", "f", "f">>
    /\ RawPrimary("foreground") = <<"#", "f", "e", "f", "e", "f", "e">>
    /\ fixed_colors["background"] = <<"#", "2", "8", "2", "a", "3", "6">>
    /\ fixed_colors["foreground"] = <<"#", "f", "8", "f", "8", "f", "2">>
    /\ Len(issues_found) >= 2
    /\ issues_found[Len(issues_found)] = AppliedFallbackIssue
    /\ issues_found[Len(issues_found) - 1].msg = LowContrastMsg

\* C3: every slot whose raw value passes normalization is returned as exactly
\* its normalized value, except background and foreground when their contrast
\* ratio is below 2.0.
C3_ValidColoursKept ==
    pc = "validated" =>
        /\ \A u \in {UserColor(RawPrimary("cursor"))} :
               u # None => fixed_colors["cursor"] = u
        /\ \A key \in {"background", "foreground"} :
               \A u \in {UserColor(RawPrimary(key))} :
                   u # None /\ ~(ResolvedContrast < MIN_ACCEPTABLE_CONTRAST)
                   => fixed_colors[key] = u
        /\ \A section \in Sections : \A name \in NameSet :
               \A u \in {UserColor(RawSlot(section, name))} :
                   u # None => fixed_colors[section][name] = u

C3_Witness ==
    /\ pc = "validated"
    /\ ResolvedContrast < MIN_ACCEPTABLE_CONTRAST
    /\ UserColor(RawPrimary("background")) # None
    /\ fixed_colors["background"] # UserColor(RawPrimary("background"))
    /\ UserColor(RawPrimary("cursor")) # None
    /\ fixed_colors["cursor"] = UserColor(RawPrimary("cursor"))
    /\ \A name \in NameSet :
           /\ UserColor(RawSlot("normal", name)) # None
           /\ fixed_colors["normal"][name] = UserColor(RawSlot("normal", name))
           /\ fixed_colors["normal"][name] # RawSlot("normal", name)

\* The raw palette has none of the colour fields.
NoFields == \A field \in AllFields :
    IF Len(field) = 1 THEN RawPrimary(field[1]) = Absent
    ELSE RawSlot(field[1], field[2]) = Absent

\* C4: for a raw palette with none of the colour fields, background,
\* foreground and the 16 ANSI slots hold their fallback colours and at least
\* 18 issues are recorded, one per field.
C4_AllFallbacks ==
    pc = "validated" /\ NoFields =>
        /\ fixed_colors["background"] = fallback_colors.background
        /\ fixed_colors["foreground"] = fallback_colors.foreground
        /\ \A section \in Sections : \A name \in NameSet :
               fixed_colors[section][name] = fallback_colors[section][name]
        /\ Len(issues_found) >= 18
        /\ \A field \in AllFields : Cardinality(IssuesAbout(field)) = 1

C4_Witness ==
    /\ pc = "validated"
    /\ colors = EmptyDict
    /\ Len(issues_found) = 19
    /\ fixed_colors["bright"]["white"] = <<"#", "f", "f", "f", "f", "f", "f">>

\* C5: when the cursor field is absent, cursor is the resolved foreground and
\* the issue recorded for it is 'derived from foreground', not the plain
\* 'Missing ... using fallback'.
C5_CursorDerived ==
    pc = "validated" /\ "cursor" \notin DOMAIN colors =>
        /\ fixed_colors["cursor"] = ResolvedPrimary("foreground")
        /\ \E i \in 1..Len(issues_found) :
               issues_found[i] = DerivedIssue(<<"cursor">>)
        /\ \A i \in 1..Len(issues_found) :
               issues_found[i] # MissingIssue(<<"cursor">>)

C5_Witness ==
    /\ pc = "validated"
    /\ "cursor" \notin DOMAIN colors
    /\ RawPrimary("foreground") = <<"#", "9", "9", "9", "9", "9", "9">>
    /\ fixed_colors["cursor"] = <<"#", "9", "9", "9", "9", "9", "9">>
    /\ issues_found[1] = DerivedIssue(<<"cursor">>)

\* The place of a colour name in the fixed slot order.
NameIndex(name) == CHOOSE i \in 1..Len(ColorNames) : ColorNames[i] = name

\* The place of an issue in the order of the checks.
Rank(issue) ==
    IF issue.msg = LowContrastMsg THEN 20
    ELSE IF issue.msg = AppliedFallbackMsg THEN 21
    ELSE IF issue.field = <<"background">> THEN 1
    ELSE IF issue.field = <<"foreground">> THEN 2
    ELSE IF issue.field = <<"cursor">> THEN 3
    ELSE IF issue.field[1] = "normal" THEN 3 + NameIndex(issue.field[2])
    ELSE 11 + NameIndex(issue.field[2])

\* C6: the issues are in insertion order: background, foreground, cursor,
\* then the normal slots in the fixed slot order, then the bright slots in
\* the same order, then the contrast issues; at most one issue per slot.
C6_IssueOrder ==
    pc = "validated" =>
        \A i \in 1..Len(issues_found) - 1 :
            Rank(issues_found[i]) < Rank(issues_found[i + 1])

C6_Witness ==
    /\ pc = "validated"
    /\ Len(issues_found) >= 6
    /\ issues_found[1].field = <<"background">>
    /\ issues_found[2].field = <<"cursor">>
    /\ \E i, j \in 1..Len(issues_found) :
           /\ i < j
           /\ "field" \in DOMAIN issues_found[i]
           /\ "field" \in DOMAIN issues_found[j]
           /\ issues_found[i].field[1] = "normal"
           /\ issues_found[j].field[1] = "bright"
    /\ issues_found[Len(issues_found)] = AppliedFallbackIssue

(***************************************************************************)
(* Properties of generate_vscode_theme and generate_theme_for_name          *)
(* (SpecTheme)                                                              *)
(***************************************************************************)
\* The call got as far as assembling a document.
Assembled == pc = "generated" /\ returned # "False"

\* The colour mapping and the rules of the assembled document.
DocColors == vscode_theme["workbench.colorCustomizations"]
DocRules == vscode_theme["editor.tokenColorCustomizations"]["textMateRules"]
ValueOf(key) ==
    DocColors[CHOOSE n \in 1..Len(DocColors) : DocColors[n][1] = key][2]

\* The expression the assembler writes for the n-th key of the mapping.
WrittenFor(n) == ColorCustomizations[LastWritten[KeyOrder[n]]][2]

\* The colours of the validated palette, and the surfaces derived from it.
PaletteColors ==
    {fixed_colors["background"], fixed_colors["foreground"], fixed_colors["cursor"]}
    \cup {fixed_colors[section][name] : section \in Sections, name \in NameSet}
DerivedSurfaces ==
    {generate_ui_colors(fixed_colors, theme_type = "LIGHT")[s] : s \in SurfaceNames}
FixedLiterals == {<<"#", "0", "0", "0", "0", "0", "0", "4", "0">>, <<"0", ".", "4">>}

\* C17: every value of the colour mapping is a colour of the validated
\* palette, one of the seven derived surfaces or a fixed literal; a key
\* written with a palette slot carries that slot's colour, never the inline
\* default, so two keys of one slot carry the same colour.
C17_PaletteSurfaceOrLiteral ==
    Assembled /\ returned = "True" =>
        \A allowed \in {PaletteColors \cup DerivedSurfaces \cup FixedLiterals} :
            \A n \in 1..Len(DocColors) :
                /\ DocColors[n][1] = ColorCustomizations[KeyOrder[n]][1]
                /\ DocColors[n][2] \in allowed
                /\ WrittenFor(n).src \in {"background", "foreground", "cursor"} =>
                       DocColors[n][2] = fixed_colors[WrittenFor(n).src]
                /\ WrittenFor(n).src \in {"normal", "bright"} =>
                       DocColors[n][2] = fixed_colors[WrittenFor(n).src][WrittenFor(n).name]

\* The palette's normal blue is the fallback, which the inline defaults of
\* the keys written with that slot differ from.
C17_Witness ==
    /\ Assembled
    /\ returned = "True"
    /\ parsed["normal"] = EmptyDict
    /\ ValueOf("tree.collapseIcon") = <<"#", "b", "d", "9", "3", "f", "9">>
    /\ ValueOf("terminal.ansiBlue") = <<"#", "b", "d", "9", "3", "f", "9">>
    /\ ValueOf("widget.shadow") = <<"#", "0", "0", "0", "0", "0", "0", "4", "0">>

\* The first scope of each rule, in the order of the rules.
RuleOrder ==
    <<"comment", "string", "constant.numeric", "constant.language", "variable",
      "keyword", "entity.name.function", "entity.name.class", "entity.name.tag",
      "punctuation.definition.string">>

RulesWellFormed ==
    /\ Len(DocRules) = Len(RuleOrder)
    /\ \A n \in 1..Len(DocRules) :
           /\ Len(DocRules[n].scope) > 0
           /\ DocRules[n].scope[1] = RuleOrder[n]
           /\ DOMAIN DocRules[n].settings = {"foreground"}

\* C18, as claimed: every rule has a non-empty scope list and one foreground,
\* the colour of one of the eight normal slots, and the rules are in a fixed
\* order.
C18_NormalSlotsOnly ==
    Assembled =>
        /\ RulesWellFormed
        /\ \A n \in 1..Len(DocRules) :
               DocRules[n].settings.foreground \in {fixed_colors["normal"][name] : name \in NameSet}

\* The normal slot each rule but the fifth takes its foreground from.
RuleSlot ==
    <<"black", "green", "yellow", "red", "", "magenta", "blue", "cyan", "green", "black">>

\* C18, amended: every rule has a non-empty scope list and one foreground; the
\* fifth rule (variable) has the palette's foreground, every other rule the
\* colour of a normal slot (black, green, yellow, red, magenta, blue, cyan,
\* green, black), and the rules are in a fixed order.
C18_NormalSlotsOrForeground ==
    Assembled =>
        /\ RulesWellFormed
        /\ \A n \in 1..Len(DocRules) :
               DocRules[n].settings.foreground =
                   IF n = 5 THEN fixed_colors["foreground"]
                   ELSE fixed_colors["normal"][RuleSlot[n]]

C18_Witness ==
    /\ Assembled
    /\ fixed_colors["foreground"] \notin {fixed_colors["normal"][name] : name \in NameSet}
    /\ fixed_colors["normal"]["black"] # fixed_colors["bright"]["black"]
    /\ DocRules[5].settings.foreground = fixed_colors["foreground"]
    /\ DocRules[1].settings.foreground = fixed_colors["normal"]["black"]

\* The keys of the terminal's sixteen ANSI colours.
AnsiKeys ==
    [normal |->
        [black |-> "terminal.ansiBlack", red |-> "terminal.ansiRed",
         green |-> "terminal.ansiGreen", yellow |-> "terminal.ansiYellow",
         blue |-> "terminal.ansiBlue", magenta |-> "terminal.ansiMagenta",
         cyan |-> "terminal.ansiCyan", white |-> "terminal.ansiWhite"],
     bright |->
        [black |-> "terminal.ansiBrightBlack", red |-> "terminal.ansiBrightRed",
         green |-> "terminal.ansiBrightGreen", yellow |-> "terminal.ansiBrightYellow",
         blue |-> "terminal.ansiBrightBlue", magenta |-> "terminal.ansiBrightMagenta",
         cyan |-> "terminal.ansiBrightCyan", white |-> "terminal.ansiBrightWhite"]]

\* The theme asked for holds the minimal source and its document was written.
MinimalGenerated ==
    /\ pc = "generated"
    /\ returned = "True"
    /\ themes_dir.themes[requested].toml = MinimalSource

AnsiKeysAreFallbacks ==
    \A section \in Sections, name \in NameSet :
        ValueOf(AnsiKeys[section][name]) = fallback_colors[section][name]

\* C19, as claimed: the minimal source (background "#282a36", foreground
\* "#f8f8f2", no ANSI section, no cursor) yields a document whose 16 ANSI keys
\* are the fallback colours, with 16 recorded issues, and the type DARK.
C19_SixteenIssues ==
    MinimalGenerated =>
        /\ AnsiKeysAreFallbacks
        /\ Len(issues_found) = 16
        /\ theme_type = "DARK"

\* C19, amended: the same, with 17 recorded issues: one for each of the 16
\* ANSI slots and one for the cursor derived from the foreground.
C19_SeventeenIssues ==
    MinimalGenerated =>
        /\ AnsiKeysAreFallbacks
        /\ Len(issues_found) = 17
        /\ Cardinality({i \in 1..Len(issues_found) :
                            /\ issues_found[i].msg = "Missing"
                            /\ Len(issues_found[i].field) = 2}) = 16
        /\ \E i \in 1..Len(issues_found) : issues_found[i] = DerivedIssue(<<"cursor">>)
        /\ theme_type = "DARK"

C19_Witness ==
    /\ MinimalGenerated
    /\ themes_dir.themes[requested].output = <<vscode_theme>>
    /\ ValueOf("editor.background") = <<"#", "2", "8", "2", "a", "3", "6">>
    /\ ValueOf("terminal.ansiBlue") = <<"#", "b", "d", "9", "3", "f", "9">>
    /\ Len(issues_found) = 17

(***************************************************************************)
(* Properties of generate_all_themes (SpecBatch)                            *)
(***************************************************************************)
\* The batch has ended without raising, over three subdirectories of which
\* exactly one lacks alacritty.toml.
OneOfThreeLacked ==
    /\ pc = "done"
    /\ returned # "raised"
    /\ Cardinality(DOMAIN themes_dir.themes) = 3
    /\ Cardinality({t \in DOMAIN themes_dir.themes :
                        themes_dir.themes[t].toml = Absent}) = 1

\* The document of a theme has been written.
Succeeded(t) ==
    /\ t \in DOMAIN themes_dir.themes
    /\ themes_dir.themes[t].output # <<>>

\* C20, as claimed: over 3 subdirectories of which one lacks alacritty.toml
\* the batch has 2 successes, reports 2/3 and returns failure; the batch
\* returns success if and only if every theme subdirectory succeeds.
C20_TwoOfThree ==
    /\ OneOfThreeLacked =>
           /\ success_count = 2
           /\ report = <<2, 3>>
           /\ returned = "False"
    /\ pc = "done" /\ themes_dir.exists =>
           (returned = "True" <=> \A t \in DOMAIN themes_dir.themes : Succeeded(t))

\* C20, amended: over 3 subdirectories of which one lacks alacritty.toml the
\* batch processes the 2 that have it, has 2 successes, reports 2/2 and
\* returns success; the batch returns success if and only if at least one
\* subdirectory held the source file and every one that did succeeds.
C20_TwoOfTwo ==
    /\ OneOfThreeLacked =>
           /\ success_count = 2
           /\ report = <<2, 2>>
           /\ returned = "True"
    /\ pc = "done" =>
           (returned = "True" <=>
                /\ theme_dirs # <<>>
                /\ \A i \in 1..Len(theme_dirs) : Succeeded(theme_dirs[i]))

C20_Witness ==
    /\ OneOfThreeLacked
    /\ report = <<2, 2>>
    /\ returned = "True"
    /\ \E t \in DOMAIN themes_dir.themes :
           /\ themes_dir.themes[t].toml = Absent
           /\ ~Succeeded(t)
    /\ Len(theme_dirs) = 2
    /\ \A i \in 1..2 : Succeeded(theme_dirs[i])

\* C21: a batch over a listing that is not empty ends with every listed theme
\* processed and the aggregate count reported, whatever failed on the way.
C21_FailuresIsolated ==
    pc = "done" /\ theme_dirs # <<>> =>
        /\ processed = Len(theme_dirs)
        /\ report = <<success_count, Len(theme_dirs)>>

\* A step of the batch in which generate_theme_for_name is called and ends,
\* by a return or by an exception.
GenerateCalled ==
    /\ pc = "looping"
    /\ processed < Len(theme_dirs)
    /\ processed' # processed \/ returned' = "raised"

\* C22: a call of generate_theme_for_name for a theme whose directory or
\* alacritty.toml is absent returns failure and writes nothing; every other
\* call writes the document of that theme and returns success; no call
\* changes the files of another theme.
C22_FailsOnlyWithoutSource ==
    [][GenerateCalled =>
        \A theme_name \in {theme_dirs[processed + 1]} :
            /\ ~HasSource(themes_dir, theme_name) =>
                   /\ success_count' = success_count
                   /\ returned' # "raised"
                   /\ themes_dir' = themes_dir
            /\ HasSource(themes_dir, theme_name) =>
                   /\ success_count' = success_count + 1
                   /\ returned' # "raised"
                   /\ themes_dir'.themes[theme_name].output = <<vscode_theme'>>
            /\ \A t \in DOMAIN themes_dir.themes \ {theme_name} :
                   themes_dir'.themes[t] = themes_dir.themes[t]]_vars

\* A report of check_theme_status has just been printed.
StatusPrinted == status' # status

\* C25: check_theme_status changes no file; the themes it prints as complete
\* are those whose document generate_theme_for_name has written, the others
\* it lists are printed as missing: none is complete before the first
\* generation, and after a batch that returned success every theme of the
\* batch is.
C25_CompleteIffWritten ==
    [][StatusPrinted =>
        /\ themes_dir' = themes_dir
        /\ status'.complete = {t \in Listed(themes_dir) : Succeeded(t)}
        /\ status'.missing = Listed(themes_dir) \ status'.complete
        /\ pc = "input" => status'.complete = {}
        /\ pc = "done" /\ returned = "True" =>
               status'.complete = {theme_dirs[i] : i \in 1..Len(theme_dirs)}]_vars

C25_Witness ==
    /\ pc = "done"
    /\ returned = "True"
    /\ status.printed
    /\ Cardinality(status.complete) = 2
    /\ status.complete = {theme_dirs[i] : i \in 1..Len(theme_dirs)}
    /\ status.missing = {}
    /\ \A t \in status.complete : Succeeded(t)

(***************************************************************************)
(* Properties of the read failure (SpecTheme)                               *)
(***************************************************************************)
\* The theme asked for has an alacritty.toml that cannot be read.
ReadFailed ==
    /\ pc = "generated"
    /\ HasSource(themes_dir, requested)
    /\ themes_dir.themes[requested].toml = None

\* The palette the validator makes of nothing: its fallback table, with the
\* cursor derived from the fallback foreground.
FallbackPalette == put(fallback_colors, "cursor", fallback_colors.foreground)
FallbackSet ==
    {fallback_colors.background, fallback_colors.foreground}
    \cup {fallback_colors[section][name] : section \in Sections, name \in NameSet}
FallbackSurfaces ==
    {generate_ui_colors(FallbackPalette, is_light_theme(fallback_colors.background))[s] :
        s \in SurfaceNames}

\* C23: when the source cannot be read the parse result is the empty dict,
\* the run goes on to validate and assemble, every colour of the assembled
\* document is a fallback colour, a surface derived from the fallback
\* background or a fixed literal, and that document is the one written.
C23_ReadFailureFallsBack ==
    ReadFailed =>
        /\ parsed = EmptyDict
        /\ fixed_colors = FallbackPalette
        /\ \A allowed \in {FallbackSet \cup FallbackSurfaces \cup FixedLiterals} :
               \A n \in 1..Len(DocColors) : DocColors[n][2] \in allowed
        /\ \A n \in 1..Len(DocRules) : DocRules[n].settings.foreground \in FallbackSet
        /\ ValueOf("editor.background") = fallback_colors.background
        /\ AnsiKeysAreFallbacks
        /\ returned = "True" => themes_dir.themes[requested].output = <<vscode_theme>>

C23_Witness ==
    /\ ReadFailed
    /\ returned = "True"
    /\ parsed = EmptyDict
    /\ Len(issues_found) = 19
    /\ themes_dir.themes[requested].output = <<vscode_theme>>
    /\ ValueOf("editor.foreground") = <<"#", "f", "8", "f", "8", "f", "2">>

(***************************************************************************)
(* Properties of parse_alacritty_colors (SpecParse)                         *)
(***************************************************************************)
\* A line that is a bracketed section header.
IsHeaderLine(line) ==
    \A s \in {strip(line, Whitespace)} :
        Len(s) >= 2 /\ s[1] = "[" /\ s[Len(s)] = "]"

\* The pairs of the lines between the line of the header and the next line
\* that is a section header, or the end of the text.
LinesOfSection(text, header) ==
    LET lines == split(text, "\n")
        IsFirst(h) == /\ strip(lines[h], Whitespace) = header
                      /\ \A i \in 1..(h - 1) : strip(lines[i], Whitespace) # header
        IsNext(h, n) == /\ n = Len(lines) + 1 \/ IsHeaderLine(lines[n])
                        /\ \A i \in (h + 1)..(n - 1) : ~IsHeaderLine(lines[i])
    IN  IF \E h \in 1..Len(lines) : IsFirst(h)
        THEN LET h == CHOOSE h \in 1..Len(lines) : IsFirst(h)
                 n == CHOOSE n \in (h + 1)..(Len(lines) + 1) : IsNext(h, n)
             IN  ParseLines(EmptyDict, SubSeq(lines, h + 1, n - 1), 1)
        ELSE EmptyDict

\* C24: the normal and the bright section of the parse result hold exactly
\* the key = value pairs of the lines between the section's header and the
\* next bracketed section header or the end of the text; a missing section
\* is an empty mapping.
C24_SectionUpToNextHeader ==
    pc = "parsed" =>
        /\ parsed["normal"] = LinesOfSection(alacritty_file, Header_normal)
        /\ parsed["bright"] = LinesOfSection(alacritty_file, Header_bright)

(***************************************************************************)
(* Properties of the contrast override and of the cursor (Spec)             *)
(***************************************************************************)
\* C26: the background and foreground validate returns have a contrast ratio
\* of at least 2.0: they are the resolved pair, which had it, or the fallback
\* pair.
C26_ReturnedPairAcceptable ==
    pc = "validated" =>
        /\ calculate_contrast_ratio(fixed_colors["background"],
                                    fixed_colors["foreground"]) >= MIN_ACCEPTABLE_CONTRAST
        /\ \/ /\ ResolvedContrast >= MIN_ACCEPTABLE_CONTRAST
              /\ fixed_colors["background"] = ResolvedPrimary("background")
              /\ fixed_colors["foreground"] = ResolvedPrimary("foreground")
           \/ /\ fixed_colors["background"] = <<"#", "2", "8", "2", "a", "3", "6">>
              /\ fixed_colors["foreground"] = <<"#", "f", "8", "f", "8", "f", "2">>

C26_Witness ==
    /\ pc = "validated"
    /\ ResolvedContrast < MIN_ACCEPTABLE_CONTRAST
    /\ fixed_colors["background"] # ResolvedPrimary("background")
    /\ calculate_contrast_ratio(fixed_colors["background"],
                                fixed_colors["foreground"]) >= MIN_ACCEPTABLE_CONTRAST

\* C27: when the raw palette has no cursor, the returned cursor is the
\* foreground as resolved before the contrast check; the override of too low
\* a contrast leaves the cursor and the 16 ANSI slots as the loops resolved
\* them.
C27_OverrideKeepsCursor ==
    pc = "validated" =>
        /\ "cursor" \notin DOMAIN colors =>
               fixed_colors["cursor"] = ResolvedPrimary("foreground")
        /\ \A resolved \in {ResolveSlots(colors).fixed_colors} :
               /\ fixed_colors["cursor"] = resolved["cursor"]
               /\ fixed_colors["normal"] = resolved["normal"]
               /\ fixed_colors["bright"] = resolved["bright"]

C27_Witness ==
    /\ pc = "validated"
    /\ "cursor" \notin DOMAIN colors
    /\ ResolvedContrast < MIN_ACCEPTABLE_CONTRAST
    /\ fixed_colors["foreground"] = fallback_colors.foreground
    /\ fixed_colors["cursor"] = <<"#", "f", "e", "f", "e", "f", "e">>
    /\ fixed_colors["normal"]["black"] = <<"#", "1", "5", "1", "6", "1", "e">>

\* C28: a cursor that is present and does not normalize is returned as the
\* fallback background #282a36, whatever the foreground, with an
\* 'Invalid cursor' issue and none of a derived cursor.
C28_InvalidCursorGetsBackground ==
    pc = "validated" /\ "cursor" \in DOMAIN colors
                     /\ normalize_hex_color(colors["cursor"]) = None =>
        /\ fixed_colors["cursor"] = <<"#", "2", "8", "2", "a", "3", "6">>
        /\ \E i \in 1..Len(issues_found) :
               issues_found[i] = InvalidIssue(<<"cursor">>, colors["cursor"])
        /\ \A i \in 1..Len(issues_found) :
               issues_found[i] # DerivedIssue(<<"cursor">>)

C28_Witness ==
    /\ pc = "validated"
    /\ RawPrimary("cursor") = <<"z", "z", "z">>
    /\ ResolvedPrimary("foreground") = <<"#", "9", "9", "9", "9", "9", "9">>
    /\ fixed_colors["cursor"] = <<"#", "2", "8", "2", "a", "3", "6">>
    /\ fixed_colors["cursor"] # fixed_colors["foreground"]

(***************************************************************************)
(* Properties of setup_integration and remove_integration                   *)
(* (SpecIntegration)                                                        *)
(***************************************************************************)
\* A backup of a script that existed before the first setup holds that
\* script: no later setup overwrites it.
BackupIsFirstScript ==
    first_script # NoFile /\ backup_script # NoFile => backup_script = first_script

\* omarchy-theme-set is as before the first setup, without backup and
\* without enhanced script.
Restored ==
    /\ original_script = first_script
    /\ backup_script = NoFile
    /\ enhanced_script = NoFile

RemoveSucceeded == pc = "removed" /\ results[Len(results)]

C30_NeverTheAlias ==
    RemoveSucceeded =>
        /\ original_script # <<AliasContent>>
        /\ original_script \in {NoFile, first_script}

====
